---------------------------- MODULE Spec2Model ----------------------------
(***************************************************************************)
(* ChatBGP: the RFC 9003 Shutdown Communication codec.                     *)
(*                                                                         *)
(* The codec in the repository is the Julia program                        *)
(* encode_shutdown_message / decode_shutdown_message / hex_to_bytes /      *)
(* bytes_to_hex.  A byte is a number 0..255, a byte vector a sequence of   *)
(* bytes, a text a sequence of Unicode code points, a hex string a         *)
(* sequence of one-character strings.                                      *)
(***************************************************************************)
EXTENDS Integers, Sequences, FiniteSets, TLC

VARIABLES
    last,      \* the operation applied last
    text,      \* the message given to encode_shutdown_message
    subcode,   \* the subcode given to encode_shutdown_message
    enc,       \* what encode_shutdown_message returned or threw
    wire,      \* the byte vector in hand (Vector{UInt8})
    sent,      \* the byte vector given to bytes_to_hex
    hex,       \* the hex string in hand
    parsed,    \* what hex_to_bytes returned or threw
    dec,       \* what decode_shutdown_message returned or threw
    isHex,     \* what is_hex answered
    edits,     \* bytes or characters changed by hand since the last output
    cut,       \* whether the byte vector was shortened or lengthened by hand
    args,      \* what create_notification_with_data was called with
    uni,       \* what create_notification_with_data returned or threw
    und,       \* what decode_universal returned or threw
    wasmInit,       \* the promise of init(): "pending", "ready" or "failed"
    wasmReady,      \* the state of the terminal, with subcode above
    nickname,
    asNumber,
    mode,
    input,
    history,
    commandHistory,
    historyIndex,
    calls           \* the calls of the codec the last input made, in order

\* the variables of the codec exchange
codecVars == <<last, text, enc, wire, sent, hex, parsed, dec, isHex, edits, cut,
               args, uni, und>>

\* the variables of the terminal; subcode is its subcode state as well
uiVars == <<wasmInit, wasmReady, nickname, asNumber, mode, input, history,
            commandHistory, historyIndex, calls>>

vars == <<codecVars, subcode, uiVars>>

---------------------------------------------------------------------------
(* Bounds of the model.                                                    *)

\* small messages have at most MaxChars characters
MaxChars == 2
\* at most MaxEdits bytes or characters are changed by hand in one exchange
MaxEdits == 2

---------------------------------------------------------------------------
(* BGP constants.                                                          *)

BGP_NOTIFICATION == 3
BGP_ERROR_CEASE == 6
BGP_CEASE_ADMIN_SHUTDOWN == 2
BGP_CEASE_ADMIN_RESET == 4

\* the messages of the ArgumentErrors the codec throws; the interpolated
\* number travels beside the tag in the field "got"
InvalidSubcode == "Subcode must be 2 (Admin Shutdown) or 4 (Admin Reset)"
MessageTooLong == "Message exceeds 255 bytes"
TooShort == "Message too short (minimum 22 bytes)"
InvalidMarker == "Invalid BGP marker"
NotNotification == "Not a notification message"
NotCease == "Not a Cease error"
Truncated == "Message truncated"
InvalidUtf8 == "Invalid UTF-8 in message"
OddHex == "Hex string must have even number of characters"
BadHexChars == "Invalid hex characters at position"
NoError == "none"

---------------------------------------------------------------------------
(* Sequences.                                                              *)

\* fill(x, n)
fill(x, n) == [i \in 1..n |-> x]

\* v[a:b], the empty vector when b < a
Slice(v, a, b) == IF b < a THEN << >> ELSE SubSeq(v, a, b)

RECURSIVE ConcatRange(_, _, _)
\* ss[a] \o ... \o ss[b], halving the range
ConcatRange(ss, a, b) ==
    IF a > b THEN << >>
    ELSE IF a = b THEN ss[a]
    ELSE LET m == (a + b) \div 2
         IN  ConcatRange(ss, a, m) \o ConcatRange(ss, m + 1, b)

\* the concatenation of a sequence of sequences
Concat(ss) == ConcatRange(ss, 1, Len(ss))

\* the character c repeated n times
Rep(c, n) == [i \in 1..n |-> c]

---------------------------------------------------------------------------
(* UTF-8: Vector{UInt8}(text) and String(bytes).                           *)

\* the UTF-8 encoding of one code point
Utf8Char(cp) ==
    IF cp < 128 THEN <<cp>>
    ELSE IF cp < 2048 THEN <<192 + (cp \div 64), 128 + (cp % 64)>>
    ELSE IF cp < 65536 THEN
        <<224 + (cp \div 4096), 128 + ((cp \div 64) % 64), 128 + (cp % 64)>>
    ELSE <<240 + (cp \div 262144), 128 + ((cp \div 4096) % 64),
           128 + ((cp \div 64) % 64), 128 + (cp % 64)>>

\* Vector{UInt8}(text): the code units of the string
Utf8Bytes(t) == Concat([i \in 1..Len(t) |-> Utf8Char(t[i])])

IsCont(b) == b >= 128 /\ b <= 191

\* the number of bytes of the well-formed UTF-8 sequence that starts at v[i],
\* 0 when no well-formed sequence starts there
Utf8SeqLen(v, i) ==
    LET n == Len(v)
        b0 == v[i]
        b1 == IF i + 1 <= n THEN v[i + 1] ELSE 0
        b2 == IF i + 2 <= n THEN v[i + 2] ELSE 0
        b3 == IF i + 3 <= n THEN v[i + 3] ELSE 0
    IN  IF b0 < 128 THEN 1
        ELSE IF b0 >= 194 /\ b0 <= 223 /\ IsCont(b1) THEN 2
        ELSE IF b0 >= 224 /\ b0 <= 239 /\ IsCont(b1) /\ IsCont(b2)
                /\ (b0 = 224 => b1 >= 160) /\ (b0 = 237 => b1 <= 159) THEN 3
        ELSE IF b0 >= 240 /\ b0 <= 244 /\ IsCont(b1) /\ IsCont(b2) /\ IsCont(b3)
                /\ (b0 = 240 => b1 >= 144) /\ (b0 = 244 => b1 <= 143) THEN 4
        ELSE 0

\* the code point of the well-formed sequence of k bytes that starts at v[i]
Utf8CodePoint(v, i, k) ==
    IF k = 1 THEN v[i]
    ELSE IF k = 2 THEN (v[i] - 192) * 64 + (v[i + 1] - 128)
    ELSE IF k = 3 THEN
        (v[i] - 224) * 4096 + (v[i + 1] - 128) * 64 + (v[i + 2] - 128)
    ELSE (v[i] - 240) * 262144 + (v[i + 1] - 128) * 4096
         + (v[i + 2] - 128) * 64 + (v[i + 3] - 128)

\* whether v[i] is a continuation byte of a well-formed sequence that starts
\* before it (a sequence starts with a byte that continues nothing)
Consumed(v, i) ==
    \E j \in 1..(i - 1) : j >= i - 3 /\ Utf8SeqLen(v, j) > i - j

\* the character that starts at v[i]: a code point, or the malformed
\* character of a byte that starts no well-formed sequence, written -1 - byte
CharAt(v, i) ==
    LET k == Utf8SeqLen(v, i)
    IN  IF k = 0 THEN -1 - v[i] ELSE Utf8CodePoint(v, i, k)

\* String(bytes): the characters of the string that holds these bytes, in
\* their order.  The constructor never throws
String(v) ==
    LET starts == SelectSeq([i \in 1..Len(v) |-> i], LAMBDA i : ~Consumed(v, i))
    IN  [k \in 1..Len(starts) |-> CharAt(v, starts[k])]

\* the byte vector is well-formed UTF-8 from its first byte to its last
ValidUtf8(v) == \A i \in 1..Len(v) : Consumed(v, i) \/ Utf8SeqLen(v, i) > 0

---------------------------------------------------------------------------
(* encode_shutdown_message.                                                *)

Thrown(e, n) == [ok |-> FALSE, error |-> e, got |-> n, message |-> << >>]

\* faulty variant: the length byte of the text is not counted
TotalLengthNoPrefix(n) == 19 + 1 + 1 + n

\* total_length = 19 + 1 + 1 + 1 + length(utf8_bytes)
TotalLength(n) == 19 + 1 + 1 + 1 + n

\* faulty variant: the low byte is pushed first
LengthBytesLowFirst(total_length) ==
    <<total_length % 256, (total_length \div 256) % 256>>

\* the two bytes pushed for the length: high byte, low byte
LengthBytes(total_length) ==
    <<(total_length \div 256) % 256, total_length % 256>>

\* the message vector built by the append! and push! calls, in their order
BuildMessage(utf8_bytes, sc) ==
    fill(255, 16)
    \o LengthBytes(TotalLength(Len(utf8_bytes)))
    \o <<BGP_NOTIFICATION>>
    \o <<BGP_ERROR_CEASE>>
    \o <<sc>>
    \o <<Len(utf8_bytes) % 256>>
    \o utf8_bytes

\* faulty variant: every subcode from 2 to 4 is accepted
SubcodeAcceptedRange(sc) ==
    sc >= BGP_CEASE_ADMIN_SHUTDOWN /\ sc <= BGP_CEASE_ADMIN_RESET

\* the subcode check made first
SubcodeAccepted(sc) == sc \in {BGP_CEASE_ADMIN_SHUTDOWN, BGP_CEASE_ADMIN_RESET}

\* the most octets a shutdown communication may have
MaxOctets == 255

\* faulty variant: no text is too long
ExceedsLimitNever(n) == FALSE

\* faulty variant: 255 octets are refused too
ExceedsLimitAt255(n) == n >= MaxOctets

\* the length check: more than 255 octets is refused
ExceedsLimit(n) == n > MaxOctets

encode_shutdown_message(t, sc) ==
    LET utf8_bytes == Utf8Bytes(t)
    IN  IF ~SubcodeAccepted(sc) THEN Thrown(InvalidSubcode, 0)
        ELSE IF ExceedsLimit(Len(utf8_bytes))
             THEN Thrown(MessageTooLong, Len(utf8_bytes))
        ELSE [ok |-> TRUE, error |-> NoError, got |-> 0,
              message |-> BuildMessage(utf8_bytes, sc)]

---------------------------------------------------------------------------
(* decode_shutdown_message.                                                *)

DecodeThrown(e, n) ==
    [ok |-> FALSE, error |-> e, got |-> n, subcode |-> "", message |-> << >>]

Returned(name, msg) ==
    [ok |-> TRUE, error |-> NoError, got |-> 0, subcode |-> name, message |-> msg]

\* faulty variant: the last marker byte is not looked at
MarkerBrokenUpTo15(hex_bytes) == \E i \in 1..15 : hex_bytes[i] # 255

\* any(b != 0xff for b in hex_bytes[1:16])
MarkerBroken(hex_bytes) == \E i \in 1..16 : hex_bytes[i] # 255

\* faulty variant: the code is left out of the name of an unknown subcode
SubcodeNameBare(sc) ==
    IF sc = BGP_CEASE_ADMIN_SHUTDOWN THEN "Administrative Shutdown"
    ELSE IF sc = BGP_CEASE_ADMIN_RESET THEN "Administrative Reset"
    ELSE "Unknown"

\* the name given to the subcode; "$subcode" prints a UInt8 in decimal
SubcodeName(sc) ==
    IF sc = BGP_CEASE_ADMIN_SHUTDOWN THEN "Administrative Shutdown"
    ELSE IF sc = BGP_CEASE_ADMIN_RESET THEN "Administrative Reset"
    ELSE "Unknown (code=" \o ToString(sc) \o ")"

\* the smallest vector the decoder reads
MinimumSize == 22

\* faulty variant: the text is taken from the length byte on
MessageBytesFromPrefix(hex_bytes, text_length) ==
    Slice(hex_bytes, 22, 21 + text_length)

\* msg_bytes = hex_bytes[23:22+text_length]
MessageBytes(hex_bytes, text_length) == Slice(hex_bytes, 23, 22 + text_length)

\* whether String(msg_bytes) throws, which sends the decoder to its catch
\* branch: the constructor copies the bytes and checks nothing
StringThrows(msg_bytes) == FALSE

\* faulty variant: a text that ends with the vector counts as cut short
TextMissingAtEnd(hex_bytes, text_length) == Len(hex_bytes) <= 22 + text_length

\* length(hex_bytes) < 22 + text_length
TextMissing(hex_bytes, text_length) == Len(hex_bytes) < 22 + text_length

\* "Parse shutdown communication": the length byte, then the text
ParseShutdownCommunication(hex_bytes) ==
    LET subcode_name == SubcodeName(hex_bytes[21])
        text_length == hex_bytes[22]
        msg_bytes == MessageBytes(hex_bytes, text_length)
    IN  IF text_length = 0 THEN Returned(subcode_name, << >>)
        ELSE IF TextMissing(hex_bytes, text_length) THEN DecodeThrown(Truncated, 0)
        ELSE IF StringThrows(msg_bytes) THEN DecodeThrown(InvalidUtf8, 0)
        ELSE Returned(subcode_name, String(msg_bytes))

\* "Parse notification": the error code must be Cease
ParseNotification(hex_bytes) ==
    LET error_code == hex_bytes[20]
    IN  IF error_code # BGP_ERROR_CEASE THEN DecodeThrown(NotCease, error_code)
        ELSE ParseShutdownCommunication(hex_bytes)

\* faulty variant: the error code is checked before the type
ParseHeaderCeaseFirst(hex_bytes) ==
    IF hex_bytes[20] # BGP_ERROR_CEASE THEN DecodeThrown(NotCease, hex_bytes[20])
    ELSE IF hex_bytes[19] # BGP_NOTIFICATION
        THEN DecodeThrown(NotNotification, hex_bytes[19])
    ELSE ParseShutdownCommunication(hex_bytes)

\* "Parse header": the type must be NOTIFICATION (msg_length is read and
\* used nowhere)
ParseHeader(hex_bytes) ==
    LET msg_type == hex_bytes[19]
    IN  IF msg_type # BGP_NOTIFICATION THEN DecodeThrown(NotNotification, msg_type)
        ELSE ParseNotification(hex_bytes)

decode_shutdown_message(hex_bytes) ==
    IF Len(hex_bytes) < MinimumSize THEN DecodeThrown(TooShort, 0)
    ELSE IF MarkerBroken(hex_bytes) THEN DecodeThrown(InvalidMarker, 0)
    ELSE ParseHeader(hex_bytes)

\* decode_shutdown of the codec interface: the result of the decoder with
\* the raw subcode value (byte 20) beside its name
decode_shutdown(raw) ==
    LET r == decode_shutdown_message(raw)
    IN  [ok |-> r.ok, error |-> r.error, got |-> r.got,
         subcode_label |-> r.subcode,
         subcode_value |-> IF r.ok THEN raw[21] ELSE -1,
         message |-> r.message]

---------------------------------------------------------------------------
(* hex_to_bytes, bytes_to_hex, is_hex.                                     *)

HexDigits == <<"0", "1", "2", "3", "4", "5", "6", "7",
               "8", "9", "a", "b", "c", "d", "e", "f">>
UpperDigits == <<"0", "1", "2", "3", "4", "5", "6", "7",
                 "8", "9", "A", "B", "C", "D", "E", "F">>

\* faulty variant: capital letters are no digits
DigitValueLower(c) ==
    IF \E d \in 1..16 : HexDigits[d] = c
        THEN (CHOOSE d \in 1..16 : HexDigits[d] = c) - 1
    ELSE -1

\* the value of a character as a digit in base 16, -1 when it is none
DigitValue(c) ==
    IF \E d \in 1..16 : HexDigits[d] = c
        THEN (CHOOSE d \in 1..16 : HexDigits[d] = c) - 1
    ELSE IF \E d \in 1..16 : UpperDigits[d] = c
        THEN (CHOOSE d \in 1..16 : UpperDigits[d] = c) - 1
    ELSE -1

\* isspace, on the characters of the model
IsSpace(c) == c \in {" ", "\t", "\n", "\r"}

\* faulty variant: "%x", no leading zero
SprintfX(b) ==
    IF b < 16 THEN <<HexDigits[b + 1]>>
    ELSE <<HexDigits[(b \div 16) + 1], HexDigits[(b % 16) + 1]>>

\* @sprintf("%02x", b)
Sprintf02x(b) == <<HexDigits[(b \div 16) + 1], HexDigits[(b % 16) + 1]>>

\* join(parts, sep): sep stands before every part but the first
Join(parts, sep) ==
    Concat([i \in 1..Len(parts) |-> IF i = 1 THEN parts[i] ELSE sep \o parts[i]])

bytes_to_hex(bytes) == Join([i \in 1..Len(bytes) |-> Sprintf02x(bytes[i])], <<" ">>)

\* replace(hex_string, " " => "")
RemoveSpaces(hex_string) == SelectSeq(hex_string, LAMBDA c : c # " ")

\* parse(UInt8, s, base=16), -1 when it throws: whitespace before and after
\* the digits is skipped, no sign is read for an unsigned type
ParseUInt8(s) ==
    LET n == Len(s)
        nonsp == {i \in 1..n : ~IsSpace(s[i])}
    IN  IF nonsp = {} THEN -1
        ELSE LET a == CHOOSE i \in nonsp : \A j \in nonsp : i <= j
                 b == CHOOSE i \in nonsp : \A j \in nonsp : j <= i
                 val[i \in (a - 1)..b] ==
                     IF i < a THEN 0 ELSE val[i - 1] * 16 + DigitValue(s[i])
             IN  IF \E i \in a..b : DigitValue(s[i]) < 0 THEN -1
                 ELSE IF val[b] > 255 THEN -1
                 ELSE val[b]

HexThrown(e, n) == [ok |-> FALSE, error |-> e, got |-> n, bytes |-> << >>]

\* the groups clean_hex[i:i+1] for i in 1:2:length(clean_hex)
Group(clean_hex, k) == SubSeq(clean_hex, 2 * k - 1, 2 * k)

hex_to_bytes(hex_string) ==
    LET clean_hex == RemoveSpaces(hex_string)
        groups == Len(clean_hex) \div 2
        bad == {k \in 1..groups : ParseUInt8(Group(clean_hex, k)) < 0}
    IN  IF Len(clean_hex) % 2 # 0 THEN HexThrown(OddHex, Len(clean_hex))
        ELSE IF bad # {}
            THEN HexThrown(BadHexChars,
                           2 * (CHOOSE k \in bad : \A j \in bad : k <= j) - 1)
        ELSE [ok |-> TRUE, error |-> NoError, got |-> 0,
              bytes |-> [k \in 1..groups |-> ParseUInt8(Group(clean_hex, k))]]

\* the characters left when all whitespace is removed
StripWhitespace(t) == SelectSeq(t, LAMBDA c : ~IsSpace(c))

\* is_hex of the codec interface: whether the text looks like a hex dump
is_hex(t) ==
    LET s == StripWhitespace(t)
    IN  /\ Len(s) > 0
        /\ Len(s) % 2 = 0
        /\ \A i \in 1..Len(s) : DigitValue(s[i]) >= 0

---------------------------------------------------------------------------
(* The registry of universal mode: universal-mode.json.                    *)

\* faulty variant: Cease is the one code with a name
error_name_cease_only(error_code) ==
    IF error_code = 6 THEN "Cease" ELSE "Unknown"

\* error_codes[error_code].name, "Unknown" for a code not listed
error_name(error_code) ==
    IF error_code = 1 THEN "Message Header Error"
    ELSE IF error_code = 2 THEN "OPEN Message Error"
    ELSE IF error_code = 3 THEN "UPDATE Message Error"
    ELSE IF error_code = 4 THEN "Hold Timer Expired"
    ELSE IF error_code = 5 THEN "Finite State Machine Error"
    ELSE IF error_code = 6 THEN "Cease"
    ELSE "Unknown"

\* error_codes[error_code].subcodes[subcode], "Unknown" for a pair not listed
subcode_name(error_code, sc) ==
    IF error_code = 1 /\ sc = 1 THEN "Connection Not Synchronized"
    ELSE IF error_code = 1 /\ sc = 2 THEN "Bad Message Length"
    ELSE IF error_code = 1 /\ sc = 3 THEN "Bad Message Type"
    ELSE IF error_code = 2 /\ sc = 0 THEN "Unspecific"
    ELSE IF error_code = 2 /\ sc = 1 THEN "Unsupported Version Number"
    ELSE IF error_code = 2 /\ sc = 2 THEN "Bad Peer AS"
    ELSE IF error_code = 2 /\ sc = 3 THEN "Bad BGP Identifier"
    ELSE IF error_code = 2 /\ sc = 4 THEN "Unsupported Optional Parameter"
    ELSE IF error_code = 2 /\ sc = 6 THEN "Unacceptable Hold Time"
    ELSE IF error_code = 2 /\ sc = 7 THEN "Unsupported Capability"
    ELSE IF error_code = 3 /\ sc = 0 THEN "Unspecific"
    ELSE IF error_code = 3 /\ sc = 1 THEN "Malformed Attribute List"
    ELSE IF error_code = 3 /\ sc = 2 THEN "Unrecognized Well-known Attribute"
    ELSE IF error_code = 3 /\ sc = 3 THEN "Missing Well-known Attribute"
    ELSE IF error_code = 3 /\ sc = 4 THEN "Attribute Flags Error"
    ELSE IF error_code = 3 /\ sc = 5 THEN "Attribute Length Error"
    ELSE IF error_code = 3 /\ sc = 6 THEN "Invalid ORIGIN Attribute"
    ELSE IF error_code = 3 /\ sc = 8 THEN "Invalid NEXT_HOP Attribute"
    ELSE IF error_code = 3 /\ sc = 9 THEN "Optional Attribute Error"
    ELSE IF error_code = 3 /\ sc = 10 THEN "Invalid Network Field"
    ELSE IF error_code = 3 /\ sc = 11 THEN "Malformed AS_PATH"
    ELSE IF error_code = 4 /\ sc = 0 THEN "Unspecific"
    ELSE IF error_code = 5 /\ sc = 0 THEN "Unspecified Error"
    ELSE IF error_code = 5 /\ sc = 1 THEN "Receive Unexpected Message in OpenSent State"
    ELSE IF error_code = 5 /\ sc = 2 THEN "Receive Unexpected Message in OpenConfirm State"
    ELSE IF error_code = 5 /\ sc = 3 THEN "Receive Unexpected Message in Established State"
    ELSE IF error_code = 6 /\ sc = 0 THEN "Unspecific"
    ELSE IF error_code = 6 /\ sc = 1 THEN "Maximum Number of Prefixes Reached"
    ELSE IF error_code = 6 /\ sc = 2 THEN "Administrative Shutdown"
    ELSE IF error_code = 6 /\ sc = 3 THEN "Peer De-configured"
    ELSE IF error_code = 6 /\ sc = 4 THEN "Administrative Reset"
    ELSE IF error_code = 6 /\ sc = 5 THEN "Connection Rejected"
    ELSE IF error_code = 6 /\ sc = 6 THEN "Other Configuration Change"
    ELSE IF error_code = 6 /\ sc = 7 THEN "Connection Collision Resolution"
    ELSE IF error_code = 6 /\ sc = 8 THEN "Out of Resources"
    ELSE IF error_code = 6 /\ sc = 9 THEN "Hard Reset"
    ELSE "Unknown"

\* faulty variant: Hold Timer Expired (4, 0) is given a message
data_types_all(error_code, sc) ==
    IF error_code = 1 /\ sc = 2 THEN "length"
    ELSE IF error_code = 1 /\ sc = 3 THEN "type"
    ELSE IF error_code = 2 /\ sc = 1 THEN "version"
    ELSE IF error_code = 3 /\ sc = 3 THEN "attribute"
    ELSE IF error_code = 5 /\ sc = 1 THEN "message_type"
    ELSE IF error_code = 5 /\ sc = 2 THEN "message_type"
    ELSE IF error_code = 5 /\ sc = 3 THEN "message_type"
    ELSE IF error_code = 6 /\ sc = 2 THEN "message"
    ELSE IF error_code = 6 /\ sc = 4 THEN "message"
    ELSE IF error_code = 4 /\ sc = 0 THEN "message"
    ELSE "none"

\* faulty variant: Bad Message Length (1, 2) has lost its entry
data_types_short(error_code, sc) ==
    IF error_code = 1 /\ sc = 3 THEN "type"
    ELSE IF error_code = 2 /\ sc = 1 THEN "version"
    ELSE IF error_code = 3 /\ sc = 3 THEN "attribute"
    ELSE IF error_code = 5 /\ sc = 1 THEN "message_type"
    ELSE IF error_code = 5 /\ sc = 2 THEN "message_type"
    ELSE IF error_code = 5 /\ sc = 3 THEN "message_type"
    ELSE IF error_code = 6 /\ sc = 2 THEN "message"
    ELSE IF error_code = 6 /\ sc = 4 THEN "message"
    ELSE "none"

\* faulty variant: Administrative Reset (6, 4) has lost its entry
data_types_shutdown_only(error_code, sc) ==
    IF error_code = 1 /\ sc = 2 THEN "length"
    ELSE IF error_code = 1 /\ sc = 3 THEN "type"
    ELSE IF error_code = 2 /\ sc = 1 THEN "version"
    ELSE IF error_code = 3 /\ sc = 3 THEN "attribute"
    ELSE IF error_code = 5 /\ sc = 1 THEN "message_type"
    ELSE IF error_code = 5 /\ sc = 2 THEN "message_type"
    ELSE IF error_code = 5 /\ sc = 3 THEN "message_type"
    ELSE IF error_code = 6 /\ sc = 2 THEN "message"
    ELSE "none"

\* data_types[error_code][subcode][0]: the shape of the data a pair carries,
\* "none" for a pair not listed
data_types(error_code, sc) ==
    IF error_code = 1 /\ sc = 2 THEN "length"
    ELSE IF error_code = 1 /\ sc = 3 THEN "type"
    ELSE IF error_code = 2 /\ sc = 1 THEN "version"
    ELSE IF error_code = 3 /\ sc = 3 THEN "attribute"
    ELSE IF error_code = 5 /\ sc = 1 THEN "message_type"
    ELSE IF error_code = 5 /\ sc = 2 THEN "message_type"
    ELSE IF error_code = 5 /\ sc = 3 THEN "message_type"
    ELSE IF error_code = 6 /\ sc = 2 THEN "message"
    ELSE IF error_code = 6 /\ sc = 4 THEN "message"
    ELSE "none"

---------------------------------------------------------------------------
(* The universal sub-format: create_notification_with_data and             *)
(* decode_universal_notification of the codec interface.                   *)

MalformedHex == "MalformedHex"
InvalidAuxData == "InvalidAuxData"

\* the result of an encoder of the interface that failed
UniversalThrown(e, n) ==
    [ok |-> FALSE, error |-> e, got |-> n, message |-> << >>, total_bytes |-> 0]

\* the value of a decimal text: -1 for the empty text and for a text with a
\* character that is no decimal digit
RECURSIVE DecimalValue(_)
DecimalValue(t) ==
    IF Len(t) = 0 THEN -1
    ELSE LET d == t[Len(t)] - 48
             front == Slice(t, 1, Len(t) - 1)
         IN  IF d < 0 \/ d > 9 THEN -1
             ELSE IF Len(front) = 0 THEN d
             ELSE LET h == DecimalValue(front)
                  IN  IF h < 0 THEN -1 ELSE 10 * h + d

\* the largest value of each numeric shape
ShapeLimit(shape) == IF shape = "length" THEN 65535 ELSE 255

\* the bytes of a numeric shape: a big-endian u16 for length, one byte for
\* version, type and message_type
NumericBytes(shape, n) ==
    IF shape = "length" THEN <<n \div 256, n % 256>> ELSE <<n>>

\* the shapes whose value is text, written as its UTF-8 bytes with no
\* length prefix
TextShapes == {"message", "attribute"}

\* 19 (header) + 1 (error_code) + 1 (subcode) + len(data_bytes)
UniversalLength(n) == 19 + 1 + 1 + n

\* the notification: marker, length, type, error code, subcode, data
BuildNotification(error_code, sc, data_bytes) ==
    LET total_length == UniversalLength(Len(data_bytes))
        message == fill(255, 16) \o LengthBytes(total_length)
                       \o <<BGP_NOTIFICATION, error_code, sc>> \o data_bytes
    IN  [ok |-> TRUE, error |-> NoError, got |-> 0, message |-> message,
         total_bytes |-> Len(message)]

\* encode_universal: data_type is the label of the shape the caller means
\* ("" when absent), value the literal as text (empty when absent)
create_notification_with_data(error_code, sc, data_type, value) ==
    LET shape == data_types(error_code, sc)
        n == DecimalValue(value)
        utf8_bytes == Utf8Bytes(value)
    IN  IF shape = "none" THEN BuildNotification(error_code, sc, << >>)
        ELSE IF data_type # shape \/ Len(value) = 0
            THEN UniversalThrown(InvalidAuxData, 0)
        ELSE IF shape \in TextShapes
            THEN IF shape = "message" /\ ExceedsLimit(Len(utf8_bytes))
                     THEN UniversalThrown(MessageTooLong, Len(utf8_bytes))
                 ELSE BuildNotification(error_code, sc, utf8_bytes)
        ELSE IF n < 0 \/ n > ShapeLimit(shape)
            THEN UniversalThrown(InvalidAuxData, n)
        ELSE BuildNotification(error_code, sc, NumericBytes(shape, n))

\* faulty variant: the low byte alone
msg_length_low_byte(hex_bytes) == hex_bytes[18]

\* msg_length = (UInt16(hex_bytes[17]) << 8) | UInt16(hex_bytes[18])
msg_length(hex_bytes) == hex_bytes[17] * 256 + hex_bytes[18]

\* the smallest notification: header, error code and subcode
MinimumNotification == 21

UniversalDecodeThrown(e, n) ==
    [ok |-> FALSE, error |-> e, got |-> n,
     error_code |-> -1, error_name |-> "", subcode |-> -1, subcode_name |-> "",
     data_length |-> -1,
     interpretation |-> [present |-> FALSE, value |-> -1, text |-> << >>]]

\* what the data region says, by the shape the registry gives the pair:
\* the text of a well-formed UTF-8 region, the number of a numeric region of
\* the shape's size, nothing otherwise
Interpretation(shape, data) ==
    IF shape \in TextShapes /\ Len(data) > 0 /\ ValidUtf8(data)
        THEN [present |-> TRUE, value |-> -1, text |-> String(data)]
    ELSE IF shape = "length" /\ Len(data) = 2
        THEN [present |-> TRUE, value |-> data[1] * 256 + data[2], text |-> << >>]
    ELSE IF shape \in {"version", "type", "message_type"} /\ Len(data) = 1
        THEN [present |-> TRUE, value |-> data[1], text |-> << >>]
    ELSE [present |-> FALSE, value |-> -1, text |-> << >>]

\* decode_universal: the header is validated as in decode_shutdown, every
\* error code is accepted and the data is all that follows the subcode
decode_universal(raw) ==
    IF Len(raw) < MinimumNotification THEN UniversalDecodeThrown(TooShort, Len(raw))
    ELSE IF MarkerBroken(raw) THEN UniversalDecodeThrown(InvalidMarker, 0)
    ELSE IF raw[19] # BGP_NOTIFICATION THEN UniversalDecodeThrown(NotNotification, raw[19])
    ELSE IF msg_length(raw) # Len(raw)
        THEN UniversalDecodeThrown(Truncated, msg_length(raw))
    ELSE LET data == Slice(raw, 22, Len(raw))
         IN  [ok |-> TRUE, error |-> NoError, got |-> 0,
              error_code |-> raw[20], error_name |-> error_name(raw[20]),
              subcode |-> raw[21], subcode_name |-> subcode_name(raw[20], raw[21]),
              data_length |-> Len(data),
              interpretation |-> Interpretation(data_types(raw[20], raw[21]), data)]


---------------------------------------------------------------------------
(* JavaScript strings in the terminal: a string is the sequence of its     *)
(* code points.                                                            *)

\* the white space String.prototype.trim removes: tab, line feed, vertical
\* tab, form feed, carriage return, space
JsSpace == {9, 10, 11, 12, 13, 32}

\* text.trim()
trim(t) ==
    LET kept == {i \in 1..Len(t) : t[i] \notin JsSpace}
    IN  IF kept = {} THEN << >>
        ELSE LET a == CHOOSE i \in kept : \A j \in kept : i <= j
                 b == CHOOSE i \in kept : \A j \in kept : i >= j
             IN  Slice(t, a, b)

\* text.startsWith('/')
startsWithSlash(t) == Len(t) > 0 /\ t[1] = 47

\* cmd.split(' '): the parts between single spaces, empty parts included
split(t) ==
    LET seps == SelectSeq([i \in 1..Len(t) |-> i], LAMBDA i : t[i] = 32)
        n == Len(seps) + 1
    IN  [k \in 1..n |->
            Slice(t, IF k = 1 THEN 1 ELSE seps[k - 1] + 1,
                     IF k = n THEN Len(t) ELSE seps[k] - 1)]

\* parts.slice(from).join(' ')
joinFrom(parts, from) ==
    Concat([k \in 1..(IF Len(parts) < from THEN 0 ELSE Len(parts) - from + 1) |->
        IF k = 1 THEN parts[from] ELSE <<32>> \o parts[from + k - 1]])

\* parts[0].toLowerCase(), on the letters A-Z
toLowerCase(t) ==
    [i \in 1..Len(t) |-> IF t[i] \in 65..90 THEN t[i] + 32 ELSE t[i]]

\* parts[k], the empty string for undefined: both are falsy and both are
\* different from every non-empty string
part(parts, k) == IF k <= Len(parts) THEN parts[k] ELSE << >>

\* the number of decimal digits t starts with
DigitPrefix(t) ==
    LET stops == {i \in 1..Len(t) : t[i] \notin 48..57}
    IN  IF stops = {} THEN Len(t)
        ELSE (CHOOSE i \in stops : \A j \in stops : i <= j) - 1

\* parseInt(s) of a string without sign and without 0x: leading white space
\* is skipped and the digits the rest starts with are read; -1 stands for NaN
parseInt(t) ==
    LET kept == {i \in 1..Len(t) : t[i] \notin JsSpace}
        rest == IF kept = {} THEN << >>
                ELSE Slice(t, CHOOSE i \in kept : \A j \in kept : i <= j, Len(t))
    IN  DecimalValue(Slice(rest, 1, DigitPrefix(rest)))

\* faulty variant: every argument passes
allDigitsAny(t) == TRUE

\* /^\d+$/.test(s)
allDigits(t) == Len(t) > 0 /\ DigitPrefix(t) = Len(t)

\* new TextEncoder().encode(text).length
encodedLength(t) == Len(Utf8Bytes(t))

\* the characters of the code points 32 .. 126
AsciiTable ==
    <<" ", "!", "\"", "#", "$", "%", "&", "'", "(", ")", "*", "+", ",", "-",
     ".", "/", "0", "1", "2", "3", "4", "5", "6", "7", "8", "9", ":", ";",
     "<", "=", ">", "?", "@", "A", "B", "C", "D", "E", "F", "G", "H", "I",
     "J", "K", "L", "M", "N", "O", "P", "Q", "R", "S", "T", "U", "V", "W",
     "X", "Y", "Z", "[", "\\", "]", "^", "_", "?", "a", "b", "c", "d", "e",
     "f", "g", "h", "i", "j", "k", "l", "m", "n", "o", "p", "q", "r", "s",
     "t", "u", "v", "w", "x", "y", "z", "{", "|", "}", "~">>

\* the character of a code point, as hex strings hold it; "?" stands for
\* the grave accent and for every character outside the table, none of
\* which is a hex digit or white space
Chr(cp) ==
    IF cp \in 32..126 THEN AsciiTable[cp - 31]
    ELSE IF cp = 9 THEN "\t"
    ELSE IF cp = 10 THEN "\n"
    ELSE IF cp = 13 THEN "\r"
    ELSE "?"

\* a string as the hex transcoder reads it
Chars(t) == [i \in 1..Len(t) |-> Chr(t[i])]

\* the code point of a character bytes_to_hex writes: a digit, a-f, a space
Ord(c) ==
    IF c = " " THEN 32
    ELSE IF DigitValue(c) < 10 THEN 48 + DigitValue(c)
    ELSE 87 + DigitValue(c)

\* a hex string of the transcoder as a JavaScript string
FromChars(h) == [i \in 1..Len(h) |-> Ord(h[i])]


---------------------------------------------------------------------------
(* The entry points of the codec as the terminal calls them (BgpWasm).     *)

\* decode_hex: all whitespace is stripped; the rest must be a non-empty,
\* even number of hex digits, read two by two
decode_hex(t) ==
    LET clean == StripWhitespace(t)
    IN  IF \/ Len(clean) = 0
           \/ Len(clean) % 2 = 1
           \/ \E i \in 1..Len(clean) : DigitValue(clean[i]) < 0
            THEN [ok |-> FALSE, error |-> MalformedHex, bytes |-> << >>]
        ELSE [ok |-> TRUE, error |-> NoError,
              bytes |-> [k \in 1..(Len(clean) \div 2) |->
                  16 * DigitValue(clean[2 * k - 1]) + DigitValue(clean[2 * k])]]

\* a number of JavaScript given for a u8: NaN becomes 0, the low byte is kept
ToU8(n) == IF n < 0 THEN 0 ELSE n % 256

\* the label a data_type string is, "?" for a string that names no shape
Label(t) ==
    IF t = << >> THEN ""
    ELSE IF t = <<108, 101, 110, 103, 116, 104>> THEN "length"
    ELSE IF t = <<116, 121, 112, 101>> THEN "type"
    ELSE IF t = <<118, 101, 114, 115, 105, 111, 110>> THEN "version"
    ELSE IF t = <<109, 101, 115, 115, 97, 103, 101, 95, 116, 121, 112, 101>>
        THEN "message_type"
    ELSE IF t = <<97, 116, 116, 114, 105, 98, 117, 116, 101>> THEN "attribute"
    ELSE IF t = <<109, 101, 115, 115, 97, 103, 101>> THEN "message"
    ELSE "?"

BgpWasm_is_hex(t) == is_hex(Chars(t))

\* encode_shutdown_message({message, subcode}): hex, total_bytes,
\* message_bytes, or an error
BgpWasm_encode_shutdown_message(message, sc) ==
    LET r == encode_shutdown_message(message, sc)
    IN  [ok |-> r.ok, error |-> r.error,
         hex |-> IF r.ok THEN bytes_to_hex(r.message) ELSE << >>,
         total_bytes |-> Len(r.message),
         message_bytes |-> IF r.ok THEN r.message[22] ELSE 0]

\* decode_shutdown_message(hex)
BgpWasm_decode_shutdown_message(t) ==
    LET h == decode_hex(Chars(t))
    IN  IF h.ok THEN decode_shutdown(h.bytes)
        ELSE [ok |-> FALSE, error |-> MalformedHex, got |-> 0,
              subcode_label |-> "", subcode_value |-> -1, message |-> << >>]

\* decode_universal_notification(hex)
BgpWasm_decode_universal_notification(t) ==
    LET h == decode_hex(Chars(t))
    IN  IF h.ok THEN decode_universal(h.bytes)
        ELSE UniversalDecodeThrown(MalformedHex, 0)

\* create_notification_with_data(error_code, subcode, data_type, value):
\* hex and total_bytes, or an error
BgpWasm_create_notification_with_data(error_code, sc, data_type, value) ==
    LET r == create_notification_with_data(ToU8(error_code), ToU8(sc),
                                           Label(data_type), value)
    IN  [ok |-> r.ok, error |-> r.error,
         hex |-> IF r.ok THEN bytes_to_hex(r.message) ELSE << >>,
         total_bytes |-> r.total_bytes]

---------------------------------------------------------------------------
(* The inputs of the model.                                                *)

\* one character of each UTF-8 width: T, e-acute, the euro sign, an emoji
Alphabet == {84, 233, 8364, 128512}

\* the characters of the small texts: one byte wide and four bytes wide
SmallAlphabet == {84, 128512}

\* a text of a two-byte and a three-byte character
MixedMessage == <<233, 8364>>

\* "Test"
TestMessage == <<84, 101, 115, 116>>

\* "Maintenance in 30min", the message of the README's example
MaintenanceMessage ==
    <<77, 97, 105, 110, 116, 101, 110, 97, 110, 99, 101, 32, 105, 110, 32,
      51, 48, 109, 105, 110>>

RECURSIVE TextsUpTo(_)
\* the texts of at most n characters
TextsUpTo(n) ==
    IF n = 0 THEN {<< >>}
    ELSE LET shorter == TextsUpTo(n - 1)
         IN  shorter \cup {Append(t, c) : t \in shorter, c \in SmallAlphabet}

\* a text of exactly n bytes made of the character c, filled up with "T"
Padded(c, n) ==
    LET w == Len(Utf8Char(c))
    IN  Rep(c, n \div w) \o Rep(84, n % w)

\* texts at the limit of 255 octets and past it
LimitTexts ==
    {Padded(c, n) : c \in Alphabet, n \in {MaxOctets, MaxOctets + 1, 2 * MaxOctets + 2}}

Messages ==
    TextsUpTo(MaxChars) \cup {TestMessage, MixedMessage, MaintenanceMessage}
        \cup LimitTexts

\* a subcode is a UInt8
Subcodes == 0..255

\* the bytes changed by hand: <<position from 1, new value>>
Faults ==
    {<<1, 0>>, <<6, 0>>, <<16, 254>>,
     <<18, 0>>,
     <<19, 4>>,
     <<20, 3>>,
     <<21, 9>>, <<21, 0>>, <<21, 255>>,
     <<22, 0>>, <<22, 1>>, <<22, 255>>,
     <<23, 128>>, <<23, 195>>}

\* bytes are changed, cut or added by hand in messages of at most
\* MaxFaultLen bytes
MaxFaultLen == 32

\* the lengths a byte vector is cut down to
CutLengths == {0, 6, 21, 22}

\* the characters typed as hex
HexAlphabet == {"0", "a", "F", "z", " ", "\t"}

\* typed hex strings have at most MaxHexChars characters
MaxHexChars == 4

RECURSIVE HexStringsUpTo(_)
HexStringsUpTo(n) ==
    IF n = 0 THEN {<< >>}
    ELSE LET shorter == HexStringsUpTo(n - 1)
         IN  shorter \cup {Append(t, c) : t \in shorter, c \in HexAlphabet}

TypedHex == HexStringsUpTo(MaxHexChars)

\* the error codes given to the universal encoder: the registered ones, 0,
\* 7 and the largest
ErrorCodes == 0..7 \cup {255}

\* the subcodes given to the universal encoder
UniversalSubcodes == 0..5 \cup {255}

\* the labels given as data_type: the shapes, none and one that is no shape
DataTypeLabels ==
    {"", "length", "type", "version", "message_type", "attribute", "message",
     "text"}

\* "Hello"
HelloMessage == <<72, 101, 108, 108, 111>>

\* the literals given as value: none, "0", "255", "256", "4096", "65535",
\* "65536", "12a", "Hello", an emoji, and texts of 255 and 256 bytes
Values ==
    {<< >>, <<48>>, <<50, 53, 53>>, <<50, 53, 54>>, <<52, 48, 57, 54>>,
     <<54, 53, 53, 51, 53>>, <<54, 53, 53, 51, 54>>, <<49, 50, 97>>,
     HelloMessage, <<128512>>,
     Padded(128512, MaxOctets), Padded(128512, MaxOctets + 1)}

---------------------------------------------------------------------------
(* The state machine: one exchange encodes a message, carries the bytes or *)
(* their hex rendering to the reader, and decodes them.                    *)

NoEncode == Thrown(NoError, 0)
NoParse == HexThrown(NoError, 0)
NoDecode ==
    [ok |-> FALSE, error |-> NoError, got |-> 0,
     subcode_label |-> "", subcode_value |-> -1, message |-> << >>]

NoArgs == [error_code |-> 0, subcode |-> 0, data_type |-> "", value |-> << >>]
NoUniversal == UniversalThrown(NoError, 0)
NoUniversalDecode == UniversalDecodeThrown(NoError, 0)

Init ==
    /\ last = "start"
    /\ text = << >>
    /\ subcode = BGP_CEASE_ADMIN_SHUTDOWN
    /\ enc = NoEncode
    /\ wire = << >>
    /\ sent = << >>
    /\ hex = << >>
    /\ parsed = NoParse
    /\ dec = NoDecode
    /\ isHex = FALSE
    /\ edits = 0
    /\ cut = FALSE
    /\ args = NoArgs
    /\ uni = NoUniversal
    /\ und = NoUniversalDecode
    /\ wasmInit = "pending"
    /\ wasmReady = FALSE
    /\ nickname = << >>
    /\ asNumber = << >>
    /\ mode = "shutdown"
    /\ input = << >>
    /\ history = << >>
    /\ commandHistory = << >>
    /\ historyIndex = -1
    /\ calls = << >>

\* encode_shutdown_message(t, sc): a new exchange starts
Encode(t, sc) ==
    /\ last = "start"
    /\ last' = "encode"
    /\ text' = t
    /\ subcode' = sc
    /\ enc' = encode_shutdown_message(t, sc)
    /\ wire' = enc'.message
    /\ sent' = << >>
    /\ hex' = << >>
    /\ parsed' = NoParse
    /\ dec' = NoDecode
    /\ isHex' = FALSE
    /\ edits' = 0
    /\ cut' = FALSE
    /\ args' = NoArgs
    /\ uni' = NoUniversal
    /\ und' = NoUniversalDecode
    /\ UNCHANGED uiVars

\* the bytes handed on are the encoder's output
HaveBytes == last \in {"encode", "set_byte", "truncate", "append"} /\ enc.ok

\* the message is short enough to be changed by hand
Changeable == HaveBytes /\ ~cut /\ Len(enc.message) <= MaxFaultLen

\* one byte of the message is changed on its way
SetByte(i, v) ==
    /\ Changeable
    /\ edits < MaxEdits
    /\ i <= Len(wire)
    /\ wire[i] # v
    /\ wire' = [wire EXCEPT ![i] = v]
    /\ edits' = edits + 1
    /\ last' = "set_byte"
    /\ UNCHANGED <<text, subcode, enc, sent, hex, parsed, dec, isHex, cut>>
    /\ UNCHANGED <<args, uni, und>>
    /\ UNCHANGED uiVars

\* the message is cut down to its first n bytes
Truncate(n) ==
    /\ Changeable
    /\ n < Len(wire)
    /\ wire' = Slice(wire, 1, n)
    /\ cut' = TRUE
    /\ last' = "truncate"
    /\ UNCHANGED <<text, subcode, enc, sent, hex, parsed, dec, isHex, edits>>
    /\ UNCHANGED <<args, uni, und>>
    /\ UNCHANGED uiVars

\* a byte is added after the end of the message
AppendByte(b) ==
    /\ Changeable
    /\ wire' = Append(wire, b)
    /\ cut' = TRUE
    /\ last' = "append"
    /\ UNCHANGED <<text, subcode, enc, sent, hex, parsed, dec, isHex, edits>>
    /\ UNCHANGED <<args, uni, und>>
    /\ UNCHANGED uiVars

\* bytes_to_hex(wire)
BytesToHex ==
    /\ HaveBytes
    /\ sent' = wire
    /\ hex' = bytes_to_hex(wire)
    /\ last' = "bytes_to_hex"
    /\ UNCHANGED <<text, subcode, enc, wire, parsed, dec, isHex, edits, cut>>
    /\ UNCHANGED <<args, uni, und>>
    /\ UNCHANGED uiVars

\* the reader types a hex string: a new exchange with no encoder in it
TypeHex(h) ==
    /\ last = "start"
    /\ last' = "type_hex"
    /\ hex' = h
    /\ text' = << >>
    /\ subcode' = BGP_CEASE_ADMIN_SHUTDOWN
    /\ enc' = NoEncode
    /\ wire' = << >>
    /\ sent' = << >>
    /\ parsed' = NoParse
    /\ dec' = NoDecode
    /\ isHex' = FALSE
    /\ edits' = 0
    /\ cut' = FALSE
    /\ args' = NoArgs
    /\ uni' = NoUniversal
    /\ und' = NoUniversalDecode
    /\ UNCHANGED uiVars

HaveHex == last \in {"bytes_to_hex", "type_hex", "is_hex"}

\* is_hex(hex)
IsHex ==
    /\ last = "type_hex"
    /\ isHex' = is_hex(hex)
    /\ last' = "is_hex"
    /\ UNCHANGED <<text, subcode, enc, wire, sent, hex, parsed, dec, edits, cut>>
    /\ UNCHANGED <<args, uni, und>>
    /\ UNCHANGED uiVars

\* hex_to_bytes(hex): the bytes in hand are now the parsed ones
HexToBytes ==
    /\ HaveHex
    /\ parsed' = hex_to_bytes(hex)
    /\ wire' = parsed'.bytes
    /\ last' = "hex_to_bytes"
    /\ UNCHANGED <<text, subcode, enc, sent, hex, dec, isHex, edits, cut>>
    /\ UNCHANGED <<args, uni, und>>
    /\ UNCHANGED uiVars

\* create_notification_with_data(error_code, sc, data_type, value): a new
\* exchange starts
CreateNotification(error_code, sc, data_type, value) ==
    /\ last = "start"
    /\ last' = "create_notification"
    /\ args' = [error_code |-> error_code, subcode |-> sc,
                data_type |-> data_type, value |-> value]
    /\ uni' = create_notification_with_data(error_code, sc, data_type, value)
    /\ wire' = uni'.message
    /\ UNCHANGED <<text, subcode, enc, sent, hex, parsed, dec, isHex, edits, cut, und>>
    /\ UNCHANGED uiVars

\* a byte vector is in hand to be decoded
Decodable ==
    \/ HaveBytes
    \/ last = "create_notification" /\ uni.ok
    \/ last = "hex_to_bytes" /\ parsed.ok

\* decode_universal(wire)
DecodeUniversal ==
    /\ Decodable
    /\ und' = decode_universal(wire)
    /\ last' = "decode_universal"
    /\ UNCHANGED <<text, subcode, enc, wire, sent, hex, parsed, dec, isHex, edits, cut>>
    /\ UNCHANGED <<args, uni>>
    /\ UNCHANGED uiVars

\* decode_shutdown_message(wire)
Decode ==
    /\ Decodable
    /\ dec' = decode_shutdown(wire)
    /\ last' = "decode"
    /\ UNCHANGED <<text, subcode, enc, wire, sent, hex, parsed, isHex, edits, cut>>
    /\ UNCHANGED <<args, uni, und>>
    /\ UNCHANGED uiVars

\* the exchange is over and the next one begins
Continue ==
    /\ last # "start"
    /\ last' = "start"
    /\ text' = << >>
    /\ subcode' = BGP_CEASE_ADMIN_SHUTDOWN
    /\ enc' = NoEncode
    /\ wire' = << >>
    /\ sent' = << >>
    /\ hex' = << >>
    /\ parsed' = NoParse
    /\ dec' = NoDecode
    /\ isHex' = FALSE
    /\ edits' = 0
    /\ cut' = FALSE
    /\ args' = NoArgs
    /\ uni' = NoUniversal
    /\ und' = NoUniversalDecode
    /\ UNCHANGED uiVars

\* choice 1 or 2 of the chat, or a direct call of the encoder
EncodeAny == last = "start" /\ \E t \in Messages, sc \in Subcodes : Encode(t, sc)

SetAnyByte == Changeable /\ \E f \in Faults : SetByte(f[1], f[2])

TruncateAny == Changeable /\ \E n \in CutLengths : Truncate(n)

AppendAny == Changeable /\ \E b \in {0, 65} : AppendByte(b)

\* /encode of universal mode, or a direct call of the encoder
CreateAnyNotification ==
    last = "start" /\ \E error_code \in ErrorCodes, sc \in UniversalSubcodes,
                          data_type \in DataTypeLabels, value \in Values :
                          CreateNotification(error_code, sc, data_type, value)

\* choice 3 of the chat: the hex string is whatever the reader enters
TypeAnyHex == last = "start" /\ \E h \in TypedHex : TypeHex(h)

Next ==
    \/ EncodeAny
    \/ SetAnyByte
    \/ TruncateAny
    \/ AppendAny
    \/ BytesToHex
    \/ TypeAnyHex
    \/ IsHex
    \/ HexToBytes
    \/ Decode
    \/ CreateAnyNotification
    \/ DecodeUniversal
    \/ Continue

Spec == Init /\ [][Next]_vars


---------------------------------------------------------------------------
(* The terminal: ChatBGP of App.jsx.                                       *)

\* a line of the history: its type, which line it is, and what its
\* template is filled with
Line(type, line) ==
    [type |-> type, line |-> line, text |-> << >>, nick |-> << >>,
     a |-> 0, label |-> "", hex |-> << >>]

\* a call of an entry point of the codec and what it gave
Call(fn, arg, result) == [fn |-> fn, text |-> arg, result |-> result]

\* the number of lines of universalContent.help
UniversalHelpLines == 15

\* the number of lines showLearnContent adds: three around the header, the
\* title, the content and an empty line of each section, the footer
LearnLines == 81

\* the session state a command reads and sets
Session(n, as, sc, m) == [nickname |-> n, asNumber |-> as, subcode |-> sc, mode |-> m]

\* what a handler did: the session it leaves, the lines it added, whether
\* it emptied the history, the calls it made
Outcome(st, lines, cleared, made) ==
    [session |-> st, lines |-> lines, cleared |-> cleared, calls |-> made]

\* getNick()
getNick(st) ==
    IF st.nickname # << >> THEN st.nickname
    ELSE IF st.asNumber # << >> THEN <<65, 83>> \o st.asNumber
    ELSE <<97, 110, 111, 110>> \o (IF st.subcode = 2 THEN <<50>> ELSE <<52>>)

showUniversalHelp ==
    [k \in 1..UniversalHelpLines |-> [Line("universal", "help") EXCEPT !.a = k]]

\* the lines are counted; their types are those of learn-content.json
showLearnContent ==
    [k \in 1..LearnLines |-> [Line("learn", "learn") EXCEPT !.a = k]]

\* the lines of /help: the commands of help-content.json stand as one line
helpMessages(st) ==
    <<Line("system", "rule"),
      Line("system", "Commands:"),
      Line("system", "commands"),
      Line("system", ""),
      Line("system", "Current state:"),
      [Line("system", "Nick") EXCEPT !.text = st.nickname],
      [Line("system", "AS") EXCEPT !.text = st.asNumber],
      [Line("system", "Mode") EXCEPT !.a = st.subcode],
      [Line("system", "Display") EXCEPT !.nick = getNick(st)],
      Line("system", "rule")>>

handleShutdownCommand(cmd, st) ==
    LET parts == split(cmd)
        command == toLowerCase(parts[1])
        arg == part(parts, 2)
    IN  IF command = <<47, 110, 105, 99, 107>> THEN
            IF arg = << >> THEN
                Outcome(st, <<Line("error", "Usage: /nick")>>, FALSE, << >>)
            ELSE IF arg = <<48>> THEN
                Outcome([st EXCEPT !.nickname = << >>],
                        <<Line("system", "Nickname cleared")>>, FALSE, << >>)
            ELSE Outcome([st EXCEPT !.nickname = arg],
                         <<[Line("system", "Nickname set to") EXCEPT !.text = arg]>>,
                         FALSE, << >>)
        ELSE IF command = <<47, 97, 115>> THEN
            IF arg = << >> THEN
                Outcome(st, <<Line("error", "Usage: /as")>>, FALSE, << >>)
            ELSE IF arg = <<48>> THEN
                Outcome([st EXCEPT !.asNumber = << >>],
                        <<Line("system", "AS number cleared")>>, FALSE, << >>)
            ELSE IF allDigits(arg) THEN
                Outcome([st EXCEPT !.asNumber = arg],
                        <<[Line("system", "AS number set to") EXCEPT !.text = arg]>>,
                        FALSE, << >>)
            ELSE Outcome(st, <<Line("error", "AS number must be numeric")>>,
                         FALSE, << >>)
        ELSE IF command = <<47, 109, 111, 100, 101>> THEN
            IF arg = <<50>> \/ arg = <<52>> THEN
                Outcome([st EXCEPT !.subcode = parseInt(arg)],
                        <<[Line("system", "Mode set to") EXCEPT
                              !.label = IF arg = <<50>> THEN "Administrative Shutdown"
                                        ELSE "Administrative Reset",
                              !.text = arg]>>,
                        FALSE, << >>)
            ELSE Outcome(st, <<Line("error", "Usage: /mode")>>, FALSE, << >>)
        ELSE IF command = <<47, 117, 110, 105, 118, 101, 114, 115, 97, 108>> THEN
            Outcome([st EXCEPT !.mode = "universal"],
                    <<Line("system", "Switched to universal")>> \o showUniversalHelp,
                    FALSE, << >>)
        ELSE IF command = <<47, 108, 101, 97, 114, 110>> THEN
            Outcome(st, showLearnContent, FALSE, << >>)
        ELSE IF command = <<47, 99, 108, 101, 97, 114>> THEN
            Outcome(st, << >>, TRUE, << >>)
        ELSE IF command = <<47, 104, 101, 108, 112>> THEN
            Outcome(st, helpMessages(st), FALSE, << >>)
        ELSE Outcome(st, <<[Line("error", "Unknown command") EXCEPT !.text = command]>>,
                     FALSE, << >>)

\* the names the terminal prints beside the numbers of /encode
\* (universalContent.error_codes[errorCode]?.name || 'Unknown')
encodeLines(errorCode, subcodeValue, result) ==
    <<Line("output", "BGP NOTIFICATION"),
      [Line("output", "Error") EXCEPT !.a = errorCode, !.label = error_name(errorCode)],
      [Line("output", "Subcode") EXCEPT
          !.a = subcodeValue, !.label = subcode_name(errorCode, subcodeValue)],
      [Line("hex", "hex") EXCEPT !.hex = result.hex],
      [Line("output", "bytes total") EXCEPT !.a = result.total_bytes]>>

handleUniversalCommand(cmd, st) ==
    LET parts == split(cmd)
        command == toLowerCase(parts[1])
        errorCode == parseInt(part(parts, 2))
        subcodeValue == parseInt(part(parts, 3))
        dataType == part(parts, 4)
        dataValue == joinFrom(parts, 5)
        result == BgpWasm_create_notification_with_data(
                      errorCode, subcodeValue, dataType, dataValue)
        made == <<Call("create_notification_with_data", cmd, result)>>
    IN  IF command = <<47, 101, 110, 99, 111, 100, 101>> THEN
            IF Len(parts) < 3 THEN
                Outcome(st, <<Line("error", "Usage: /encode")>>, FALSE, << >>)
            ELSE IF result.ok THEN
                Outcome(st, encodeLines(errorCode, subcodeValue, result), FALSE, made)
            ELSE Outcome(st, <<[Line("error", "Encoding error") EXCEPT
                                   !.label = result.error]>>, FALSE, made)
        ELSE IF command = <<47, 115, 104, 117, 116, 100, 111, 119, 110>> THEN
            Outcome([st EXCEPT !.mode = "shutdown"],
                    <<Line("system", "Switched back to shutdown")>>, FALSE, << >>)
        ELSE IF command = <<47, 104, 101, 108, 112>> THEN
            Outcome(st, showUniversalHelp, FALSE, << >>)
        ELSE IF command = <<47, 99, 108, 101, 97, 114>> THEN
            Outcome(st, << >>, TRUE, << >>)
        ELSE handleShutdownCommand(cmd, st)

\* the lines of a result of the universal decoder
universalLines(result) ==
    <<Line("output", "DECODED BGP NOTIFICATION"),
      [Line("output", "Error") EXCEPT !.a = result.error_code, !.label = result.error_name],
      [Line("output", "Subcode") EXCEPT !.a = result.subcode, !.label = result.subcode_name],
      [Line("output", "Data") EXCEPT !.a = result.data_length]>>
    \o (IF result.interpretation.present
            THEN <<[Line("output", "Info") EXCEPT
                       !.a = result.interpretation.value,
                       !.text = result.interpretation.text]>>
        ELSE << >>)
    \o <<Line("output", "end")>>

\* the lines of a result of the shutdown decoder
shutdownLines(result) ==
    <<Line("output", "DECODED BGP SHUTDOWN NOTIFICATION"),
      [Line("output", "Type") EXCEPT !.label = result.subcode_label, !.a = result.subcode_value],
      [Line("output", "Message") EXCEPT !.text = result.message],
      Line("output", "end")>>

\* faulty variant: the shutdown decoder is tried whatever the universal
\* decoder gave
universalErrorAlways(universal) == TRUE

\* catch (universalError): the universal decoder threw
universalError(universal) == ~universal.ok

\* the hex branch of processInput: the universal decoder first, the shutdown
\* decoder when it failed
decodeInput(cleanedText, st, isHexCall) ==
    LET universal == BgpWasm_decode_universal_notification(cleanedText)
        shutdown == BgpWasm_decode_shutdown_message(cleanedText)
        first == Call("decode_universal_notification", cleanedText, universal)
        second == Call("decode_shutdown_message", cleanedText, shutdown)
        decoding == <<Line("system", "Decoding BGP notification")>>
    IN  IF ~universalError(universal) THEN
            Outcome(st, decoding \o universalLines(universal), FALSE,
                    <<isHexCall, first>>)
        ELSE IF shutdown.ok THEN
            Outcome(st, decoding \o shutdownLines(shutdown), FALSE,
                    <<isHexCall, first, second>>)
        ELSE Outcome(st, decoding \o <<[Line("error", "Decoding error") EXCEPT
                                          !.label = shutdown.error]>>,
                     FALSE, <<isHexCall, first, second>>)

\* faulty variant: text is encoded in universal mode too
refusesTextNever(m) == FALSE

\* if (mode === 'universal') of the encoding branch
refusesText(m) == m = "universal"

\* faulty variant: 256 bytes pass
tooLongAt256(bytes) == bytes > 256

\* if (bytes > 255)
tooLong(bytes) == bytes > 255

\* the text branch of processInput: the message is encoded in shutdown mode
encodeInput(text_, st, isHexCall) ==
    LET bytes == encodedLength(text_)
        result == BgpWasm_encode_shutdown_message(text_, st.subcode)
        made == <<isHexCall, Call("encode_shutdown_message", text_, result)>>
    IN  IF refusesText(st.mode) THEN
            Outcome(st, <<Line("error", "In universal mode, use /encode")>>,
                    FALSE, <<isHexCall>>)
        ELSE IF tooLong(bytes) THEN
            Outcome(st, <<[Line("error", "Message too long") EXCEPT !.a = bytes]>>,
                    FALSE, <<isHexCall>>)
        ELSE IF result.ok THEN
            Outcome(st,
                    <<[Line("system", "Encoding message") EXCEPT !.a = bytes],
                      [Line("output", "BGP NOTIFICATION") EXCEPT
                          !.label = IF st.subcode = 2 THEN "SHUTDOWN" ELSE "RESET"],
                      [Line("hex", "hex") EXCEPT !.hex = result.hex],
                      [Line("output", "bytes total") EXCEPT !.a = result.total_bytes]>>,
                    FALSE, made)
        ELSE Outcome(st,
                     <<[Line("system", "Encoding message") EXCEPT !.a = bytes],
                       [Line("error", "ERROR") EXCEPT !.label = result.error]>>,
                     FALSE, made)

\* faulty variant: the commands of universal mode are known in both modes
universalCommandsAlways(m) == TRUE

\* if (mode === 'universal') of the command branch
universalCommands(m) == m = "universal"

\* processInput(text) for a text that is not blank, after the input line
\* was added
processInput(text_, st) ==
    LET cleanedText == trim(text_)
        isHex_ == BgpWasm_is_hex(cleanedText)
        isHexCall == Call("is_hex", cleanedText, isHex_)
    IN  IF startsWithSlash(text_) THEN
            IF universalCommands(st.mode) THEN handleUniversalCommand(text_, st)
            ELSE handleShutdownCommand(text_, st)
        ELSE IF isHex_ THEN decodeInput(cleanedText, st, isHexCall)
        ELSE encodeInput(text_, st, isHexCall)


---------------------------------------------------------------------------
(* The events of the terminal.                                             *)

\* at most MaxInputs inputs are submitted
MaxInputs == 2

\* the hex string the encoder prints for a message and a subcode
EncodedHex(t, sc) == FromChars(bytes_to_hex(encode_shutdown_message(t, sc).message))

\* the hex string of "Test" encoded with its length field set to 0
WrongLengthHex ==
    FromChars(bytes_to_hex(
        [encode_shutdown_message(TestMessage, 2).message EXCEPT ![18] = 0]))

\* the hex string of "Test" encoded with its length field set to 0 and its
\* error code set to 5: no decoder accepts it
RefusedHex ==
    FromChars(bytes_to_hex(
        [encode_shutdown_message(TestMessage, 2).message EXCEPT ![18] = 0, ![20] = 5]))

\* what is typed as a message or pasted as hex: a blank, "Test", texts of
\* 255 and 256 bytes, notifications in hex
TypedTexts ==
    {<<32>>, TestMessage, Padded(128512, MaxOctets), Padded(128512, MaxOctets + 1),
     EncodedHex(TestMessage, 2), EncodedHex(MaintenanceMessage, 2),
     EncodedHex(<< >>, 4), WrongLengthHex, RefusedHex}

\* the commands typed
TypedCommands ==
    {
     \* "/universal"
     <<47, 117, 110, 105, 118, 101, 114, 115, 97, 108>>,
     \* "/shutdown"
     <<47, 115, 104, 117, 116, 100, 111, 119, 110>>,
     \* "/mode 4"
     <<47, 109, 111, 100, 101, 32, 52>>,
     \* "/mode 2"
     <<47, 109, 111, 100, 101, 32, 50>>,
     \* "/nick"
     <<47, 110, 105, 99, 107>>,
     \* "/as"
     <<47, 97, 115>>,
     \* "/mode 3"
     <<47, 109, 111, 100, 101, 32, 51>>,
     \* "/clear"
     <<47, 99, 108, 101, 97, 114>>,
     \* "/help"
     <<47, 104, 101, 108, 112>>,
     \* "/learn"
     <<47, 108, 101, 97, 114, 110>>,
     \* "/nick bob"
     <<47, 110, 105, 99, 107, 32, 98, 111, 98>>,
     \* "/as 65000"
     <<47, 97, 115, 32, 54, 53, 48, 48, 48>>,
     \* "/as x"
     <<47, 97, 115, 32, 120>>,
     \* "/encode 4 0"
     <<47, 101, 110, 99, 111, 100, 101, 32, 52, 32, 48>>,
     \* "/encode 6 2 message Hello"
     <<47, 101, 110, 99, 111, 100, 101, 32, 54, 32, 50, 32, 109, 101, 115, 115, 97, 103, 101, 32, 72, 101, 108, 108, 111>>,
     \* "/encode 1 2"
     <<47, 101, 110, 99, 111, 100, 101, 32, 49, 32, 50>>,
     \* "/bogus"
     <<47, 98, 111, 103, 117, 115>>}

TypedInputs == TypedTexts \cup TypedCommands

\* faulty variant: the terminal is rendered while init() is pending
RenderedAlways == TRUE

\* if (!wasmReady) return the loading screen: the input field exists once
\* wasmReady holds
Rendered == wasmReady

\* faulty variant: the entries are counted from the oldest
RecalledOldestFirst(ch, newIndex) == ch[newIndex + 1]

\* commandHistory[commandHistory.length - 1 - newIndex]
Recalled(ch, newIndex) == ch[Len(ch) - newIndex]

\* init() resolved: the terminal is ready and shows the welcome lines, which
\* stand as one line
WasmInitResolved ==
    /\ wasmInit = "pending"
    /\ wasmInit' = "ready"
    /\ wasmReady' = TRUE
    /\ history' = <<Line("system", "welcome")>>
    /\ UNCHANGED <<nickname, asNumber, subcode, mode, input, commandHistory,
                   historyIndex, calls>>
    /\ UNCHANGED codecVars

\* init() rejected: the terminal stays on its loading screen
WasmInitRejected ==
    /\ wasmInit = "pending"
    /\ wasmInit' = "failed"
    /\ history' = Append(history, Line("error", "WASM initialization failed"))
    /\ UNCHANGED <<wasmReady, nickname, asNumber, subcode, mode, input,
                   commandHistory, historyIndex, calls>>
    /\ UNCHANGED codecVars

\* onChange of the input field, which is rendered once wasmReady holds
Change(t) ==
    /\ Rendered
    /\ input' = t
    /\ UNCHANGED <<wasmInit, wasmReady, nickname, asNumber, subcode, mode, history,
                   commandHistory, historyIndex, calls>>
    /\ UNCHANGED codecVars

\* Enter: processInput(input), then setInput('')
Enter ==
    /\ Rendered
    /\ input' = << >>
    /\ IF trim(input) = << >> THEN
           UNCHANGED <<nickname, asNumber, subcode, mode, history,
                       commandHistory, historyIndex, calls>>
       ELSE
           LET st == Session(nickname, asNumber, subcode, mode)
               echo == [Line("input", "echo") EXCEPT !.nick = getNick(st), !.text = input]
           IN  /\ Len(commandHistory) < MaxInputs
               /\ commandHistory' = Append(commandHistory, input)
               /\ historyIndex' = -1
               /\ \E out \in {processInput(input, st)} :
                      /\ nickname' = out.session.nickname
                      /\ asNumber' = out.session.asNumber
                      /\ subcode' = out.session.subcode
                      /\ mode' = out.session.mode
                      /\ history' = IF out.cleared THEN << >>
                                    ELSE Append(history, echo) \o out.lines
                      /\ calls' = out.calls
    /\ UNCHANGED <<wasmInit, wasmReady>>
    /\ UNCHANGED codecVars

ArrowUp ==
    /\ Rendered
    /\ IF Len(commandHistory) > 0 /\ historyIndex < Len(commandHistory) - 1 THEN
           LET newIndex == historyIndex + 1
           IN  /\ historyIndex' = newIndex
               /\ input' = Recalled(commandHistory, newIndex)
       ELSE UNCHANGED <<historyIndex, input>>
    /\ UNCHANGED <<wasmInit, wasmReady, nickname, asNumber, subcode, mode, history,
                   commandHistory, calls>>
    /\ UNCHANGED codecVars

ArrowDown ==
    /\ Rendered
    /\ IF historyIndex > 0 THEN
           LET newIndex == historyIndex - 1
           IN  /\ historyIndex' = newIndex
               /\ input' = Recalled(commandHistory, newIndex)
       ELSE IF historyIndex = 0 THEN
           /\ historyIndex' = -1
           /\ input' = << >>
       ELSE UNCHANGED <<historyIndex, input>>
    /\ UNCHANGED <<wasmInit, wasmReady, nickname, asNumber, subcode, mode, history,
                   commandHistory, calls>>
    /\ UNCHANGED codecVars

\* the user types or pastes something, as long as an input can still be
\* submitted
ChangeAny ==
    /\ Rendered
    /\ Len(commandHistory) < MaxInputs
    /\ \E t \in TypedInputs : Change(t)

UINext ==
    \/ WasmInitResolved
    \/ WasmInitRejected
    \/ ChangeAny
    \/ Enter
    \/ ArrowUp
    \/ ArrowDown

UISpec == Init /\ [][UINext]_vars

---------------------------------------------------------------------------
(* What the properties below are stated with.                              *)

\* the number of bytes UTF-8 gives a code point
ByteWidth(cp) ==
    IF cp <= 127 THEN 1 ELSE IF cp <= 2047 THEN 2 ELSE IF cp <= 65535 THEN 3 ELSE 4

RECURSIVE WidthSum(_, _, _)
WidthSum(t, a, b) ==
    IF a > b THEN 0
    ELSE IF a = b THEN ByteWidth(t[a])
    ELSE LET m == (a + b) \div 2 IN WidthSum(t, a, m) + WidthSum(t, m + 1, b)

\* the UTF-8 byte length of a text
ByteLen(t) == WidthSum(t, 1, Len(t))

\* the bytes decoded are the encoder's output, carried as bytes and unchanged
DecodedDirectly == last = "decode" /\ enc.ok /\ hex = << >> /\ edits = 0 /\ ~cut

\* the 16 marker bytes are all 0xFF
MarkerValid(raw) == \A i \in 1..16 : raw[i] = 255

\* the header and Cease checks pass and the announced text is all there
StructurallyValid(raw) ==
    /\ Len(raw) >= 22
    /\ MarkerValid(raw)
    /\ raw[19] = 3
    /\ raw[20] = 6
    /\ (raw[22] = 0 \/ Len(raw) >= 22 + raw[22])

---------------------------------------------------------------------------
(* C1: decoding the bytes that encode_shutdown returned for a message of   *)
(* at most 255 bytes and subcode 2 or 4 succeeds and gives back the label  *)
(* of the subcode, the subcode and the message.                            *)
C1_ShutdownRoundTrip ==
    DecodedDirectly =>
        /\ dec.ok
        /\ dec.subcode_label =
               (IF subcode = 2 THEN "Administrative Shutdown" ELSE "Administrative Reset")
        /\ dec.subcode_value = subcode
        /\ dec.message = text

\* a message of 255 bytes in characters of several bytes went round
C1_Witness ==
    /\ DecodedDirectly
    /\ dec.ok
    /\ ByteLen(text) = 255
    /\ Len(text) < 255
    /\ subcode = 4

(* C2: for every byte sequence B, the empty one too, hex_to_bytes of       *)
(* bytes_to_hex(B) succeeds and returns exactly B.                         *)
C2_HexRoundTrip ==
    (last = "hex_to_bytes" /\ enc.ok) =>
        /\ parsed.ok
        /\ parsed.bytes = sent
        /\ wire = sent

\* the empty sequence went round
C2_Witness == last = "hex_to_bytes" /\ enc.ok /\ sent = << >> /\ parsed.ok

(* C3: an accepted message is 16 bytes 0xFF, the 2-byte big-endian value   *)
(* 22 + len(m), 0x03, 0x06, the subcode, the byte len(m), then m; its byte *)
(* count is 22 + len(m) and equals its length field.                       *)
C3_WireLayout ==
    (last = "encode" /\ enc.ok) =>
        LET raw == enc.message
            n == ByteLen(text)
        IN  /\ Len(raw) = 22 + n
            /\ \A i \in 1..16 : raw[i] = 255
            /\ raw[17] * 256 + raw[18] = 22 + n
            /\ raw[17] \in 0..255 /\ raw[18] \in 0..255
            /\ raw[19] = 3
            /\ raw[20] = 6
            /\ raw[21] = subcode
            /\ raw[22] = n
            /\ SubSeq(raw, 23, Len(raw)) = Utf8Bytes(text)
            /\ (text = <<84, 101, 115, 116>> /\ subcode = 2) =>
                   raw = <<255, 255, 255, 255, 255, 255, 255, 255,
                           255, 255, 255, 255, 255, 255, 255, 255,
                           0, 26, 3, 6, 2, 4, 84, 101, 115, 116>>
            /\ (text = << >> /\ subcode = 4) => (Len(raw) = 22 /\ raw[22] = 0)
            /\ (text = <<233, 8364>>) =>
                   SubSeq(raw, 22, Len(raw)) = <<5, 195, 169, 226, 130, 172>>

\* "Test" was encoded with subcode 2
C3_Witness ==
    last = "encode" /\ enc.ok /\ text = <<84, 101, 115, 116>> /\ subcode = 2

(* C4: with an accepted subcode, a message of at most 255 UTF-8 bytes is   *)
(* encoded (255 bytes give 277) and one of 256 bytes or more fails with    *)
(* MessageTooLong and its byte count, whatever its number of characters.   *)
C4_LengthBoundary ==
    (last = "encode" /\ subcode \in {2, 4}) =>
        /\ ByteLen(text) <= 255 => (enc.ok /\ Len(enc.message) = 22 + ByteLen(text))
        /\ ByteLen(text) = 255 => Len(enc.message) = 277
        /\ ByteLen(text) >= 256 =>
               /\ ~enc.ok
               /\ enc.error = MessageTooLong
               /\ enc.got = ByteLen(text)
               /\ enc.message = << >>
               /\ wire = << >>

\* 64 characters of 4 bytes are refused: 256 bytes
C4_Witness ==
    /\ last = "encode"
    /\ Len(text) = 64
    /\ ByteLen(text) = 256
    /\ enc.error = MessageTooLong
    /\ enc.got = 256

(* C5: encode_shutdown fails with InvalidSubcode for every subcode other   *)
(* than 2 and 4, whatever the message, and returns no message.             *)
C5_InvalidSubcode ==
    (last = "encode" /\ subcode \notin {2, 4}) =>
        /\ ~enc.ok
        /\ enc.error = InvalidSubcode
        /\ enc.message = << >>
        /\ wire = << >>

\* a message longer than 255 bytes with subcode 3 is refused for its subcode
C5_Witness ==
    /\ last = "encode"
    /\ subcode = 3
    /\ ByteLen(text) > 255
    /\ enc.error = InvalidSubcode

\* the characters that are hex digits, in either case
HexChars ==
    {"0", "1", "2", "3", "4", "5", "6", "7", "8", "9",
     "a", "b", "c", "d", "e", "f", "A", "B", "C", "D", "E", "F"}

\* the whitespace characters
Whitespace == {" ", "\t", "\n", "\r"}

\* the text without its whitespace
NoWhitespace(t) == SelectSeq(t, LAMBDA c : c \notin Whitespace)

\* what remains is nonempty, of even length and made of hex digits only
PlausibleHex(t) ==
    LET s == NoWhitespace(t)
    IN  /\ Len(s) # 0
        /\ Len(s) % 2 = 0
        /\ \A i \in 1..Len(s) : s[i] \in HexChars

(* C6: decode_hex removes all whitespace and fails with MalformedHex        *)
(* exactly when what remains is empty, of odd length or holds a character  *)
(* that is no hex digit; otherwise it returns one byte per 2-character     *)
(* group, in order.  Stated for the texts that hold a character other than *)
(* whitespace; on a text with none the decoder returns the empty vector,   *)
(* which is what the round trip of the empty vector (C2) needs.            *)
C6_DecodeHexFailsExactly ==
    (last = "hex_to_bytes" /\ NoWhitespace(hex) # << >>) =>
        LET s == NoWhitespace(hex)
        IN  /\ parsed.ok <=> PlausibleHex(hex)
            /\ ~parsed.ok => parsed.error \in {OddHex, BadHexChars}
            /\ parsed.ok =>
                   parsed.bytes = [k \in 1..(Len(s) \div 2) |->
                       16 * DigitValue(s[2 * k - 1]) + DigitValue(s[2 * k])]

(* C7: is_hex answers a boolean for every text, and answers true exactly   *)
(* when the text without its whitespace is nonempty, of even length and    *)
(* made of hex digits only.                                                *)
C7_IsHexTotal ==
    last = "is_hex" =>
        /\ isHex \in BOOLEAN
        /\ isHex <=>
               LET digits == {i \in 1..Len(hex) : hex[i] \in HexChars}
                   others == {i \in 1..Len(hex) : hex[i] \notin HexChars \cup Whitespace}
               IN  others = {} /\ digits # {} /\ Cardinality(digits) % 2 = 0

\* a text with a tab and a capital digit is taken for hex
C7_Witness ==
    /\ last = "is_hex"
    /\ isHex
    /\ \E i \in 1..Len(hex) : hex[i] = "\t"
    /\ \E i \in 1..Len(hex) : hex[i] = "F"

(* C8, as stated: a message whose byte 5 is 0x00, whatever its length and  *)
(* its other bytes, is rejected with InvalidMarker.                        *)
C8_MarkerRejectionAnyLength ==
    (last = "decode" /\ Len(wire) >= 6 /\ wire[6] = 0) =>
        (~dec.ok /\ dec.error = InvalidMarker)

(* C8, amended: a message of at least 22 bytes with a byte other than 0xFF *)
(* among bytes 0-15 (byte 5 set to 0x00, say) is rejected with             *)
(* InvalidMarker whatever its other bytes; a message of fewer than 22      *)
(* bytes is rejected with TooShort whatever its marker.                    *)
C8_MarkerRejection ==
    last = "decode" =>
        /\ (Len(wire) >= 22 /\ \E i \in 1..16 : wire[i] # 255) =>
               (~dec.ok /\ dec.error = InvalidMarker)
        /\ (Len(wire) < 22 /\ \E i \in 1..Len(wire) : i <= 16 /\ wire[i] # 255) =>
               (~dec.ok /\ dec.error = TooShort)

\* byte 5 is 0x00 and the type is wrong too: the marker is what is reported
C8_Witness ==
    /\ last = "decode"
    /\ Len(wire) >= 22
    /\ wire[6] = 0
    /\ wire[19] # 3
    /\ dec.error = InvalidMarker

(* C9: decode_shutdown checks TooShort (fewer than 22 bytes), then         *)
(* InvalidMarker, then NotNotification (byte 18 is not 3), then NotCease   *)
(* (byte 19 is not 6), and returns the error of the first check that       *)
(* fails.                                                                  *)
C9_CheckOrder ==
    last = "decode" =>
        /\ Len(wire) < 22 => (~dec.ok /\ dec.error = TooShort)
        /\ (Len(wire) >= 22 /\ ~MarkerValid(wire)) =>
               (~dec.ok /\ dec.error = InvalidMarker)
        /\ (Len(wire) >= 22 /\ MarkerValid(wire) /\ wire[19] # 3) =>
               (~dec.ok /\ dec.error = NotNotification /\ dec.got = wire[19])
        /\ (Len(wire) >= 22 /\ MarkerValid(wire) /\ wire[19] = 3 /\ wire[20] # 6) =>
               (~dec.ok /\ dec.error = NotCease /\ dec.got = wire[20])
        /\ (Len(wire) >= 22 /\ MarkerValid(wire) /\ wire[19] = 3 /\ wire[20] = 6) =>
               dec.error \notin {TooShort, InvalidMarker, NotNotification, NotCease}

\* the type and the error code are both wrong: the type is what is reported
C9_Witness ==
    /\ last = "decode"
    /\ Len(wire) >= 22
    /\ MarkerValid(wire)
    /\ wire[19] # 3
    /\ wire[20] # 6
    /\ dec.error = NotNotification

(* C10: the value of byte 20 never makes decode_shutdown fail; a           *)
(* structurally valid Cease message with subcode N other than 2 and 4      *)
(* decodes with label "Unknown (code=N)", subcode_value N and its message. *)
C10_UnknownSubcode ==
    last = "decode" =>
        /\ (dec.ok \/ ~StructurallyValid(wire) \/ dec.error = InvalidUtf8)
        /\ (StructurallyValid(wire) /\ wire[21] \notin {2, 4}) =>
               /\ dec.ok
               /\ dec.subcode_value = wire[21]
               /\ dec.subcode_label = "Unknown (code=" \o ToString(wire[21]) \o ")"
               /\ wire[21] = 9 => dec.subcode_label = "Unknown (code=9)"
               /\ (/\ enc.ok
                   /\ Len(wire) = Len(enc.message)
                   /\ \A i \in 1..Len(wire) : i # 21 => wire[i] = enc.message[i]) =>
                      dec.message = text

\* the subcode of an encoded message was changed to 9 and the message decoded
C10_Witness ==
    /\ last = "decode"
    /\ enc.ok
    /\ text # << >>
    /\ wire[21] = 9
    /\ dec.ok
    /\ dec.subcode_label = "Unknown (code=9)"
    /\ dec.message = text

---------------------------------------------------------------------------
(* The text of a decoded message.                                          *)

\* the bytes a string holds: the code units of its characters in order
codeunits(s) ==
    Concat([i \in 1..Len(s) |-> IF s[i] < 0 THEN <<-1 - s[i]>> ELSE Utf8Char(s[i])])

\* the marker, the type and the error code pass the decoder's checks
HeaderAndCeasePass(raw) ==
    /\ Len(raw) >= 22
    /\ MarkerValid(raw)
    /\ raw[19] = 3
    /\ raw[20] = 6

\* the bytes at offsets 22 .. 21 + text_length, counted from 0
TextSlice(raw) == Slice(raw, 23, 22 + raw[22])

(* C11: in a message that passes the header and Cease checks, a length     *)
(* byte of 0 gives success with the empty message; otherwise decoding      *)
(* fails with Truncated exactly when the message has fewer than            *)
(* 22 + text_length bytes, and a success returns the bytes at offsets      *)
(* 22 .. 21 + text_length.                                                 *)
C11_TextLength ==
    (last = "decode" /\ HeaderAndCeasePass(wire)) =>
        LET text_length == wire[22]
        IN  IF text_length = 0 THEN dec.ok /\ dec.message = << >>
            ELSE IF Len(wire) < 22 + text_length
                THEN ~dec.ok /\ dec.error = Truncated
            ELSE /\ dec.error # Truncated
                 /\ dec.ok => codeunits(dec.message) = TextSlice(wire)

\* a length byte that announces more text than the message holds
C11_Witness ==
    /\ last = "decode"
    /\ HeaderAndCeasePass(wire)
    /\ wire[22] > 0
    /\ Len(wire) < 22 + wire[22]
    /\ dec.error = Truncated

(* C12: a text slice that is not well-formed UTF-8 makes decode_shutdown   *)
(* fail with InvalidUtf8; no success carries a message built from such a   *)
(* slice.                                                                  *)
C12_InvalidUtf8Rejected ==
    (last = "decode" /\ StructurallyValid(wire) /\ wire[22] > 0
        /\ ~ValidUtf8(TextSlice(wire))) =>
        ~dec.ok /\ dec.error = InvalidUtf8

(* C13: every message decode_shutdown accepts has a big-endian length      *)
(* field, bytes 16-17, equal to its byte count.                            *)
C13_HeaderLengthChecked ==
    (last = "decode" /\ dec.ok) => wire[17] * 256 + wire[18] = Len(wire)

(* C14: decode_shutdown succeeds only when the length byte, byte 21,       *)
(* equals the number of bytes after it: bytes past offset                  *)
(* 21 + text_length make it fail.                                          *)
C14_NoTrailingBytes ==
    (last = "decode" /\ dec.ok) => Len(wire) = 22 + wire[22]

---------------------------------------------------------------------------
(* The README's example.                                                   *)

\* the characters of the text that joins these pairs of digits with spaces
Spaced(ps) ==
    Concat([i \in 1..Len(ps) |->
        IF i = 1 THEN ps[i] ELSE <<" ">> \o ps[i]])

\* the 16 marker bytes in hex
MarkerPairs == [i \in 1..16 |-> <<"f", "f">>]

\* "4d 61 ... 69 6e": the 20 bytes of "Maintenance in 30min" in hex
MaintenancePairs ==
    <<<<"4", "d">>, <<"6", "1">>, <<"6", "9">>, <<"6", "e">>, <<"7", "4">>,
      <<"6", "5">>, <<"6", "e">>, <<"6", "1">>, <<"6", "e">>, <<"6", "3">>,
      <<"6", "5">>, <<"2", "0">>, <<"6", "9">>, <<"6", "e">>, <<"2", "0">>,
      <<"3", "3">>, <<"3", "0">>, <<"6", "d">>, <<"6", "9">>, <<"6", "e">>>>

\* the hex text the README prints for the example: length field 00 28
ReadmeEncodeHex ==
    Spaced(MarkerPairs
           \o <<<<"0", "0">>, <<"2", "8">>, <<"0", "3">>, <<"0", "6">>,
                <<"0", "2">>, <<"1", "4">>>>
           \o MaintenancePairs)

\* the same bytes with the length field 00 2a, which is 42
MaintenanceHex ==
    Spaced(MarkerPairs
           \o <<<<"0", "0">>, <<"2", "a">>, <<"0", "3">>, <<"0", "6">>,
                <<"0", "2">>, <<"1", "4">>>>
           \o MaintenancePairs)

\* the example's message was encoded with subcode 2 and rendered in hex
MaintenanceEncoded ==
    /\ last = "bytes_to_hex"
    /\ edits = 0 /\ ~cut
    /\ text = MaintenanceMessage
    /\ subcode = 2

---------------------------------------------------------------------------
(* The README's decode example in the terminal.                            *)

\* the input submitted last is the hex text the encoder prints for m with
\* subcode 2
SubmittedEncoded(m) ==
    /\ commandHistory # << >>
    /\ commandHistory[Len(commandHistory)] = EncodedHex(m, 2)

\* the history ends with the lines of the shutdown decoder for m: Type:
\* Administrative Shutdown (2), Message: "m", and the closing line
ShowsShutdownResult(m) ==
    LET n == Len(history)
    IN  /\ n >= 3
        /\ history[n - 2] = [Line("output", "Type") EXCEPT
                                !.label = "Administrative Shutdown", !.a = 2]
        /\ history[n - 1] = [Line("output", "Message") EXCEPT !.text = m]

(* C16: when the user submits the hex text of a shutdown notification the  *)
(* encoder produced for a message m and subcode 2, the terminal shows the  *)
(* result of the shutdown decoder: a line Type: Administrative Shutdown    *)
(* (2) and a line Message: "m".                                            *)
C16_ReadmeDecodeExample ==
    \A m \in {TestMessage, MaintenanceMessage} :
        SubmittedEncoded(m) => ShowsShutdownResult(m)

---------------------------------------------------------------------------
(* The universal encoder.                                                  *)

\* the pairs that carry data, by universal-mode.json: a big-endian u16,
\* one byte, text
LengthPairs == {<<1, 2>>}
BytePairs == {<<1, 3>>, <<2, 1>>, <<5, 1>>, <<5, 2>>, <<5, 3>>}
MessagePairs == {<<6, 2>>, <<6, 4>>}
AttributePairs == {<<3, 3>>}
ShapedPairs == LengthPairs \cup BytePairs \cup MessagePairs \cup AttributePairs

\* the pair the universal encoder was called with
CalledPair == <<args.error_code, args.subcode>>

\* the number of data bytes the call asks for
DataSize ==
    IF CalledPair \in LengthPairs THEN 2
    ELSE IF CalledPair \in BytePairs THEN 1
    ELSE IF CalledPair \in ShapedPairs THEN ByteLen(args.value)
    ELSE 0

\* every character is a decimal digit
AllDigits(t) == Len(t) > 0 /\ \A i \in 1..Len(t) : t[i] \in 48..57

(* C17: a message of the universal encoder has a length field and a byte   *)
(* count of 21 + len(data_bytes); for a pair with no data shape the data   *)
(* is empty whatever data_type and value are, and the message is the 21    *)
(* bytes 16 x 0xFF, 00 15, 03, error_code, subcode.                        *)
C17_UniversalLength ==
    (last = "create_notification") =>
        LET raw == uni.message
        IN  /\ uni.ok =>
                /\ Len(raw) = 21 + DataSize
                /\ raw[17] * 256 + raw[18] = 21 + DataSize
                /\ uni.total_bytes = Len(raw)
            /\ CalledPair \notin ShapedPairs =>
                /\ uni.ok
                /\ raw = fill(255, 16)
                           \o <<0, 21, 3, args.error_code, args.subcode>>

\* Hold Timer Expired called with a data_type and a value
C17_Witness ==
    /\ last = "create_notification"
    /\ CalledPair = <<4, 0>>
    /\ args.data_type = "message"
    /\ args.value = HelloMessage
    /\ uni.ok
    /\ Len(uni.message) = 21

(* C18: for a pair with a data shape the universal encoder fails with      *)
(* InvalidAuxData and returns no message when data_type or value is absent *)
(* or the value is malformed: not decimal, a length above 65535, or a      *)
(* version, type or message_type above 255.                                *)
C18_InvalidAuxData ==
    (last = "create_notification" /\ CalledPair \in ShapedPairs) =>
        LET absent == args.data_type = "" \/ args.value = << >>
            numeric == CalledPair \in LengthPairs \cup BytePairs
            limit == IF CalledPair \in LengthPairs THEN 65535 ELSE 255
            malformed ==
                numeric /\ (~AllDigits(args.value) \/ DecimalValue(args.value) > limit)
        IN  (absent \/ malformed) =>
                /\ ~uni.ok
                /\ uni.error = InvalidAuxData
                /\ uni.message = << >>

\* "/encode 1 2": Bad Message Length with neither data_type nor value
C18_Witness ==
    /\ last = "create_notification"
    /\ CalledPair = <<1, 2>>
    /\ args.data_type = ""
    /\ args.value = << >>
    /\ uni.error = InvalidAuxData

(* C19: for a message or an attribute the universal encoder writes the     *)
(* UTF-8 bytes of the value at offset 21 with no length byte before them:  *)
(* for (6,2) and (6,4) with message m the output has 21 + len(m) bytes and *)
(* its bytes from offset 21 on are m, while byte 21 of encode_shutdown's   *)
(* output is len(m) and m follows it.                                      *)
C19_RawText ==
    (last = "create_notification" /\ uni.ok
        /\ CalledPair \in MessagePairs \cup AttributePairs) =>
        LET raw == uni.message
            data == Slice(raw, 22, Len(raw))
            shutdown == encode_shutdown_message(args.value, args.subcode)
        IN  /\ Len(raw) = 21 + ByteLen(args.value)
            /\ String(data) = args.value
            /\ (CalledPair \in MessagePairs /\ shutdown.ok) =>
                /\ Len(shutdown.message) = Len(raw) + 1
                /\ shutdown.message[22] = ByteLen(args.value)
                /\ Slice(shutdown.message, 23, Len(shutdown.message)) = data

\* "/encode 6 2 message Hello"
C19_Witness ==
    /\ last = "create_notification"
    /\ CalledPair = <<6, 2>>
    /\ args.data_type = "message"
    /\ args.value = HelloMessage
    /\ uni.ok
    /\ Len(uni.message) = 26

\* the result holds exactly one notification
OneMessage(r) ==
    /\ r.ok
    /\ r.error = NoError
    /\ Len(r.message) >= 21
    /\ MarkerValid(r.message)
    /\ r.message[17] * 256 + r.message[18] = Len(r.message)

\* the result is an error and holds no message
OnlyError(r) == ~r.ok /\ r.error # NoError /\ r.message = << >>

---------------------------------------------------------------------------
(* The universal decoder.                                                  *)

\* the marker and the type pass the checks of the universal decoder
UniversalHeaderPasses(raw) ==
    /\ Len(raw) >= 21
    /\ MarkerValid(raw)
    /\ raw[19] = 3

\* the big-endian length field, bytes 16-17
DeclaredLength(raw) == raw[17] * 256 + raw[18]

RegisteredNames ==
    <<"Message Header Error", "OPEN Message Error", "UPDATE Message Error",
      "Hold Timer Expired", "Finite State Machine Error", "Cease">>

\* the subcodes the registry lists under an error code
RegisteredSubcodes(error_code) ==
    IF error_code = 1 THEN 1..3
    ELSE IF error_code = 2 THEN (0..4) \cup {6, 7}
    ELSE IF error_code = 3 THEN (0..6) \cup (8..11)
    ELSE IF error_code = 4 THEN {0}
    ELSE IF error_code = 5 THEN 0..3
    ELSE IF error_code = 6 THEN 0..9
    ELSE {}

(* C22: a message whose marker, type and length field are valid decodes    *)
(* successfully whatever its bytes 19 and 20 are; they are returned as     *)
(* error_code and subcode, with the names of the registry when the code    *)
(* or the pair is registered and the name "Unknown" otherwise.             *)
C22_AnyErrorCode ==
    (last = "decode_universal" /\ UniversalHeaderPasses(wire)
        /\ DeclaredLength(wire) = Len(wire)) =>
        /\ und.ok
        /\ und.error_code = wire[20]
        /\ und.subcode = wire[21]
        /\ und.error_name = IF wire[20] \in 1..6 THEN RegisteredNames[wire[20]]
                            ELSE "Unknown"
        /\ und.subcode_name = "Unknown" <=> wire[21] \notin RegisteredSubcodes(wire[20])
        /\ (wire[20] = 6 /\ wire[21] = 2) => und.subcode_name = "Administrative Shutdown"
        /\ (wire[20] = 6 /\ wire[21] = 4) => und.subcode_name = "Administrative Reset"
        /\ (wire[20] = 3 /\ wire[21] = 2) =>
               und.subcode_name = "Unrecognized Well-known Attribute"

\* a notification of the unregistered error code 7 is decoded
C22_Witness ==
    /\ last = "decode_universal"
    /\ UniversalHeaderPasses(wire)
    /\ wire[20] = 7
    /\ und.ok
    /\ und.error_code = 7
    /\ und.error_name = "Unknown"
    /\ und.subcode_name = "Unknown"

---------------------------------------------------------------------------
(* The classifier and the decoder of hex.                                  *)

(* C27: the hex decoder succeeds on a text exactly when is_hex takes the   *)
(* text for hex, so a text taken for hex is never refused by the decoder.  *)
C27_ClassifierAgrees ==
    last = "hex_to_bytes" => (parsed.ok <=> is_hex(hex))

---------------------------------------------------------------------------
(* The terminal.                                                           *)

\* the command of a typed line: its first part in small letters
CommandOf(t) == toLowerCase(split(t)[1])

\* the argument of a typed line: its second part, empty when there is none
ArgumentOf(t) == IF Len(split(t)) >= 2 THEN split(t)[2] ELSE << >>

\* the entry points called for the last input
CalledFns(cs) == {cs[i].fn : i \in 1..Len(cs)}

\* the lines added to the history by a step are the echo of the input and
\* one error line
EchoAndError(before, after, typed) ==
    /\ Len(after) = Len(before) + 2
    /\ SubSeq(after, 1, Len(before)) = before
    /\ after[Len(before) + 1].type = "input"
    /\ after[Len(before) + 1].text = typed
    /\ after[Len(after)].type = "error"

\* the session state that commands set
SessionUnchanged == UNCHANGED <<nickname, asNumber, subcode, mode>>

(* C30: no entry point of the codec is called and nothing is typed or      *)
(* submitted before init() has resolved and wasmReady is true; once init() *)
(* has failed, wasmReady stays false and no call is ever made.             *)
C30_InitGate ==
    /\ [](calls # << >> => (wasmReady /\ wasmInit = "ready"))
    /\ []((commandHistory # << >> \/ input # << >>) => wasmReady)
    /\ [](wasmReady <=> wasmInit = "ready")
    /\ [](wasmInit = "failed" =>
             (~wasmReady /\ calls = << >> /\ commandHistory = << >>))
    /\ [][wasmInit = "failed" => (wasmInit' = "failed" /\ ~wasmReady')]_vars
    /\ [][calls' # calls => wasmReady]_vars

\* after init() resolved a message was encoded
C30_Witness ==
    /\ wasmInit = "ready"
    /\ wasmReady
    /\ "is_hex" \in CalledFns(calls)
    /\ "encode_shutdown_message" \in CalledFns(calls)

(* C28: -1 <= historyIndex <= length(commandHistory) - 1 always; Enter on  *)
(* an input that is not blank appends it once to commandHistory and sets   *)
(* historyIndex to -1; ArrowUp at the oldest entry and ArrowDown at -1     *)
(* change nothing; a move to an index k >= 0 sets the input field to       *)
(* commandHistory[length - 1 - k]; ArrowDown from index 0 sets the index   *)
(* to -1 and empties the input field.                                      *)
C28_HistoryNavigation ==
    /\ [](historyIndex >= -1 /\ historyIndex <= Len(commandHistory) - 1)
    /\ [][/\ (Enter /\ trim(input) # << >>) =>
                 /\ commandHistory' = Append(commandHistory, input)
                 /\ historyIndex' = -1
          /\ commandHistory' # commandHistory =>
                 (commandHistory' = Append(commandHistory, input) /\ historyIndex' = -1)
          /\ (ArrowUp /\ historyIndex = Len(commandHistory) - 1) => UNCHANGED vars
          /\ (ArrowDown /\ historyIndex = -1) => UNCHANGED vars
          /\ (ArrowUp /\ historyIndex < Len(commandHistory) - 1) =>
                 historyIndex' = historyIndex + 1
          /\ (ArrowDown /\ historyIndex > 0) => historyIndex' = historyIndex - 1
          /\ (historyIndex' # historyIndex /\ historyIndex' >= 0) =>
                 \* sequences are numbered from 1: this is the entry at
                 \* length - 1 - k counted from 0
                 input' = commandHistory[Len(commandHistory) - historyIndex']
          /\ (ArrowDown /\ historyIndex = 0) =>
                 (historyIndex' = -1 /\ input' = << >>)
         ]_vars

\* ArrowUp was pressed twice after two different inputs: the older one is
\* in the input field
C28_Witness ==
    /\ Len(commandHistory) = 2
    /\ commandHistory[1] # commandHistory[2]
    /\ historyIndex = 1
    /\ input = commandHistory[1]

\* "/universal", "/shutdown", "/encode", "/nick", "/as", "/mode"
UniversalCommand == <<47, 117, 110, 105, 118, 101, 114, 115, 97, 108>>
ShutdownCommand == <<47, 115, 104, 117, 116, 100, 111, 119, 110>>
EncodeCommand == <<47, 101, 110, 99, 111, 100, 101>>
NickCommand == <<47, 110, 105, 99, 107>>
AsCommand == <<47, 97, 115>>
ModeCommand == <<47, 109, 111, 100, 101>>

\* the last line of a history is the error line of an unknown command
UnknownCommandShown(h, command) ==
    /\ Len(h) > 0
    /\ h[Len(h)].type = "error"
    /\ h[Len(h)].line = "Unknown command"
    /\ h[Len(h)].text = command

(* C24: the mode is 'shutdown' until something is submitted and is always  *)
(* 'shutdown' or 'universal'; it changes only when /universal is submitted *)
(* (to 'universal', which /universal gives in either mode) and when        *)
(* /shutdown is submitted in universal mode (to 'shutdown'); in shutdown   *)
(* mode /shutdown and /encode are answered with the unknown-command line,  *)
(* leave the mode as it is and call no entry point of the codec.           *)
C24_ModeTransitions ==
    /\ [](mode \in {"shutdown", "universal"})
    /\ [](commandHistory = << >> => mode = "shutdown")
    /\ [][/\ mode' # mode =>
                 /\ Enter
                 /\ commandHistory' = Append(commandHistory, input)
                 /\ \/ CommandOf(input) = UniversalCommand /\ mode' = "universal"
                    \/ /\ CommandOf(input) = ShutdownCommand
                       /\ mode = "universal"
                       /\ mode' = "shutdown"
          /\ (Enter /\ CommandOf(input) = UniversalCommand) => mode' = "universal"
          /\ (Enter /\ mode = "universal" /\ CommandOf(input) = ShutdownCommand) =>
                 mode' = "shutdown"
          /\ (Enter /\ mode = "shutdown"
                 /\ CommandOf(input) \in {ShutdownCommand, EncodeCommand}) =>
                 /\ mode' = "shutdown"
                 /\ calls' = << >>
                 /\ UnknownCommandShown(history', CommandOf(input))
         ]_vars

\* /universal, then /shutdown: the terminal is back in shutdown mode
C24_Witness ==
    /\ Len(commandHistory) = 2
    /\ CommandOf(commandHistory[1]) = UniversalCommand
    /\ CommandOf(commandHistory[2]) = ShutdownCommand
    /\ mode = "shutdown"
    /\ history[Len(history)].line = "Switched back to shutdown"

\* a text of decimal digits only
Numeric(t) == Len(t) > 0 /\ \A i \in 1..Len(t) : t[i] \in 48..57

\* the commands a mode knows
KnownCommands(m) ==
    {NickCommand, AsCommand, ModeCommand, UniversalCommand,
     <<47, 108, 101, 97, 114, 110>>, <<47, 99, 108, 101, 97, 114>>,
     <<47, 104, 101, 108, 112>>}
    \cup (IF m = "universal" THEN {EncodeCommand, ShutdownCommand} ELSE {})

\* a typed line that is /nick without an argument, /as with no argument or
\* one that is not numeric, /mode with an argument other than 2 or 4, or a
\* command the mode does not know
InvalidCommand(t, m) ==
    /\ startsWithSlash(t)
    /\ \/ CommandOf(t) = NickCommand /\ ArgumentOf(t) = << >>
       \/ CommandOf(t) = AsCommand /\ ~Numeric(ArgumentOf(t))
       \/ CommandOf(t) = ModeCommand /\ ArgumentOf(t) \notin {<<50>>, <<52>>}
       \/ CommandOf(t) \notin KnownCommands(m)

(* C29: submitting /nick without an argument, /as with a missing or        *)
(* non-numeric argument, /mode with an argument other than exactly 2 or 4, *)
(* or an unknown command adds the echo of the input and one error line,    *)
(* calls no entry point, and leaves nickname, AS number, subcode and mode  *)
(* as they were.                                                           *)
C29_InvalidCommandKeepsState ==
    [][(Enter /\ InvalidCommand(input, mode)) =>
           /\ SessionUnchanged
           /\ EchoAndError(history, history', input)
           /\ calls' = << >>
           /\ commandHistory' = Append(commandHistory, input)
      ]_vars

\* "/as 65000", then "/as x": the AS number is still 65000
C29_Witness ==
    /\ Len(commandHistory) = 2
    /\ CommandOf(commandHistory[2]) = AsCommand
    /\ ArgumentOf(commandHistory[2]) = <<120>>
    /\ asNumber = <<54, 53, 48, 48, 48>>
    /\ history[Len(history)].type = "error"
    /\ history[Len(history)].line = "AS number must be numeric"

\* the calls of encode_shutdown_message among the calls of the last input
EncodeCalls(cs) == {i \in 1..Len(cs) : cs[i].fn = "encode_shutdown_message"}

(* C25: the subcode of the terminal is 2 until something is submitted, is  *)
(* always 2 or 4 and changes only when /mode 2 or /mode 4 is submitted, to *)
(* that value; every message given to encode_shutdown_message has at most  *)
(* 255 UTF-8 bytes, and the encoder answers it with a message, never with  *)
(* InvalidSubcode or MessageTooLong.                                       *)
C25_EncoderPreconditions ==
    /\ [](subcode \in {2, 4})
    /\ [](commandHistory = << >> => subcode = 2)
    /\ [](\A i \in EncodeCalls(calls) :
             /\ ByteLen(calls[i].text) <= 255
             /\ calls[i].result.ok
             /\ calls[i].result.error \notin {InvalidSubcode, MessageTooLong})
    /\ [][subcode' # subcode =>
              /\ Enter
              /\ CommandOf(input) = ModeCommand
              /\ \/ ArgumentOf(input) = <<50>> /\ subcode' = 2
                 \/ ArgumentOf(input) = <<52>> /\ subcode' = 4
         ]_vars

\* after /mode 4 a text of 255 bytes was encoded
C25_Witness ==
    /\ subcode = 4
    /\ \E i \in EncodeCalls(calls) :
           /\ ByteLen(calls[i].text) = 255
           /\ calls[i].result.ok
           /\ calls[i].result.total_bytes = 277

\* the text a typed line is classified by: the line trimmed, as the hex
\* rule reads it
Classified(t) == Chars(trim(t))

(* C26: in universal mode, submitting a text that is no command and no hex *)
(* calls neither encode_shutdown_message nor                               *)
(* create_notification_with_data and leaves nickname, AS number, subcode   *)
(* and mode as they were; a text that is not blank is recorded with its    *)
(* echo and one error line, a blank one is dropped.                        *)
C26_UniversalTextRefused ==
    [][(Enter /\ mode = "universal" /\ ~startsWithSlash(input)
           /\ ~PlausibleHex(Classified(input))) =>
           /\ SessionUnchanged
           /\ IF trim(input) = << >>
                  \* no call is made: the calls recorded are those of the
                  \* input before
                  THEN UNCHANGED <<history, commandHistory, calls>>
              ELSE /\ CalledFns(calls') \cap
                          {"encode_shutdown_message",
                           "create_notification_with_data"} = {}
                   /\ commandHistory' = Append(commandHistory, input)
                   /\ EchoAndError(history, history', input)
                   /\ history'[Len(history')].line = "In universal mode, use /encode"
      ]_vars

\* "Test" was submitted in universal mode
C26_Witness ==
    /\ mode = "universal"
    /\ Len(commandHistory) = 2
    /\ commandHistory[2] = TestMessage
    /\ CalledFns(calls) = {"is_hex"}
    /\ history[Len(history)].type = "error"
    /\ history[Len(history)].line = "In universal mode, use /encode"

\* the lines of a history from position k on
LinesFrom(h, k) == {h[i].line : i \in k..Len(h)}

(* C23: for a submitted text that is no command and is classified as hex,  *)
(* in either mode, is_hex is followed by decode_universal_notification;    *)
(* decode_shutdown_message is called exactly when the universal decoder    *)
(* failed, after it; the universal result is shown when the universal      *)
(* decoder succeeded, the shutdown result when it alone succeeded, and the *)
(* decoding error line, with the error of the shutdown decoder, when both  *)
(* failed.                                                                 *)
C23_DecodeFallback ==
    [][(Enter /\ ~startsWithSlash(input) /\ PlausibleHex(Classified(input))) =>
           LET made == calls'
               added == LinesFrom(history', Len(history) + 1)
               final == history'[Len(history')]
           IN  /\ Len(made) >= 2
               /\ made[1].fn = "is_hex"
               /\ made[1].result = TRUE
               /\ made[2].fn = "decode_universal_notification"
               /\ made[2].text = trim(input)
               /\ IF made[2].result.ok THEN
                      /\ Len(made) = 2
                      /\ "DECODED BGP NOTIFICATION" \in added
                      /\ "DECODED BGP SHUTDOWN NOTIFICATION" \notin added
                      /\ "Decoding error" \notin added
                  ELSE
                      /\ Len(made) = 3
                      /\ made[3].fn = "decode_shutdown_message"
                      /\ made[3].text = trim(input)
                      /\ "DECODED BGP NOTIFICATION" \notin added
                      /\ IF made[3].result.ok THEN
                             /\ "DECODED BGP SHUTDOWN NOTIFICATION" \in added
                             /\ "Decoding error" \notin added
                         ELSE
                             /\ "DECODED BGP SHUTDOWN NOTIFICATION" \notin added
                             /\ final.type = "error"
                             /\ final.line = "Decoding error"
                             /\ final.label = made[3].result.error
      ]_vars

\* in universal mode a hex text was refused by both decoders, with
\* different errors, and the error shown is the shutdown decoder's
C23_Witness ==
    /\ mode = "universal"
    /\ Len(calls) = 3
    /\ calls[2].fn = "decode_universal_notification"
    /\ calls[2].result.error = Truncated
    /\ calls[3].fn = "decode_shutdown_message"
    /\ calls[3].result.error = NotCease
    /\ history[Len(history)].line = "Decoding error"
    /\ history[Len(history)].label = NotCease

=============================================================================
